---- MODULE Spec2Model ----
(***************************************************************************)
(* A model of lut_builder's LUT generation engine (engine.generate_lut)    *)
(* and of the registry and colour helpers of data.py it uses.              *)
(*                                                                         *)
(* Numbers are fixed point.  Every quantity keeps one unit:                *)
(*   grid code values (log-encoded samples) : 1 / GridOne                  *)
(*   scene-linear light                     : 1 / LinOne                   *)
(*   matrix and luminance coefficients      : 1 / CoefOne                  *)
(*   display-encoded values, overlay colours: 1 / One                      *)
(*   stops and IRE (band metric, band data) : 1 / 1000                     *)
(* One is 1023 * Res, and every value the pipeline produces before the     *)
(* legal-range rescale is a multiple of 1023, so that the rescale          *)
(* x*(940/1023 - 64/1023) + 64/1023 is computed without rounding.          *)
(* The colour-science library is not part of the repository: its curves    *)
(* and matrices are tabulated from the library's published formulas and    *)
(* interpolated linearly between the tabulated knots.                      *)
(***************************************************************************)
EXTENDS Integers, Sequences, FiniteSets, TLC

(* ------------------------------ bounds -------------------------------- *)

\* Largest cube size of a request (the grid has MaxN^3 samples).
MaxN == 3

\* Longest band list of a request.
MaxBands == 2

(* ---------------------------- fixed point ----------------------------- *)

GridOne == 12 * 10000
LinOne == 1000 * 1000
CoefOne == 10 * 1000
Res == 4 * 255
One == 1023 * Res

Max(a, b) == IF a >= b THEN a ELSE b
Min(a, b) == IF a <= b THEN a ELSE b

\* floor(a * b / d) for d > 0, without forming a * b.
MulDiv(a, b, d) == (a \div d) * b + ((a % d) * b) \div d

\* The value at x of the line through (x0, y0) and (x1, y1), x0 < x1.
Lerp(x0, y0, x1, y1, x) ==
    LET s == Max(1, (x1 - x0) \div 16384)
    IN  y0 + MulDiv(y1 - y0, (x - x0) \div s, (x1 - x0) \div s)

\* The index k of the segment of table t that holds x: the largest k in
\* lo..hi-1 with t[k][1] <= x, or lo when there is none.
RECURSIVE Segment(_, _, _, _)
Segment(t, x, lo, hi) ==
    IF hi - lo <= 1 THEN lo
    ELSE LET mid == (lo + hi) \div 2
         IN  IF t[mid][1] <= x THEN Segment(t, x, mid, hi)
             ELSE Segment(t, x, lo, mid)

\* Piecewise-linear interpolation in a table of <<x, y>> knots, x ascending;
\* outside the table the first or last segment is extended.
Interp(t, x) ==
    LET k == Segment(t, x, 1, Len(t))
    IN  IF x = t[k][1] THEN t[k][2]
        ELSE IF x = t[k + 1][1] THEN t[k + 1][2]
        ELSE Lerp(t[k][1], t[k][2], t[k + 1][1], t[k + 1][2], x)

(* ------------------------------ data.py ------------------------------- *)

\* MIDDLE_GREY = 0.18, in scene-linear units.
MIDDLE_GREY == 180000

\* Mutant: the S-Log3 floor and ceiling change places.
CAMERA_PROFILES_floor_above ==
            "Sony S-Log3" :>
              [gamut |-> "S-Gamut3.Cine", log |-> "S-Log3",
               white_clip_stops |-> 6000, black_clip_stops |-> -9000,
               log_ceiling |-> 4200, log_floor |-> 112800]
         @@ "Panasonic V-Log" :>
              [gamut |-> "V-Gamut", log |-> "V-Log",
               white_clip_stops |-> 6500, black_clip_stops |-> -8000,
               log_ceiling |-> 106872, log_floor |-> 15012]
         @@ "Canon Log 3" :>
              [gamut |-> "Cinema Gamut", log |-> "Canon Log 3",
               white_clip_stops |-> 7000, black_clip_stops |-> -7500,
               log_ceiling |-> 108000, log_floor |-> 4800]
         @@ "ARRI LogC3" :>
              [gamut |-> "ARRI Wide Gamut 3", log |-> "ARRI LogC3",
               white_clip_stops |-> 7500, black_clip_stops |-> -7000,
               log_ceiling |-> 109200, log_floor |-> 3600]
         @@ "RED Log3G10" :>
              [gamut |-> "REDWideGamutRGB", log |-> "Log3G10",
               white_clip_stops |-> 10000, black_clip_stops |-> -8000,
               log_ceiling |-> 120000, log_floor |-> 0]

\* Stops in 1/1000, code values in 1/GridOne.
CAMERA_PROFILES ==
            "Sony S-Log3" :>
              [gamut |-> "S-Gamut3.Cine", log |-> "S-Log3",
               white_clip_stops |-> 6000, black_clip_stops |-> -9000,
               log_ceiling |-> 112800, log_floor |-> 4200]
         @@ "Panasonic V-Log" :>
              [gamut |-> "V-Gamut", log |-> "V-Log",
               white_clip_stops |-> 6500, black_clip_stops |-> -8000,
               log_ceiling |-> 106872, log_floor |-> 15012]
         @@ "Canon Log 3" :>
              [gamut |-> "Cinema Gamut", log |-> "Canon Log 3",
               white_clip_stops |-> 7000, black_clip_stops |-> -7500,
               log_ceiling |-> 108000, log_floor |-> 4800]
         @@ "ARRI LogC3" :>
              [gamut |-> "ARRI Wide Gamut 3", log |-> "ARRI LogC3",
               white_clip_stops |-> 7500, black_clip_stops |-> -7000,
               log_ceiling |-> 109200, log_floor |-> 3600]
         @@ "RED Log3G10" :>
              [gamut |-> "REDWideGamutRGB", log |-> "Log3G10",
               white_clip_stops |-> 10000, black_clip_stops |-> -8000,
               log_ceiling |-> 120000, log_floor |-> 0]

TARGET_PROFILES ==
            "Rec.709" :>
              [gamut |-> "ITU-R BT.709", gamma |-> "ITU-R BT.709",
               encoding |-> "oetf"]
         @@ "Rec.2020" :>
              [gamut |-> "ITU-R BT.2020", gamma |-> "ITU-R BT.2020",
               encoding |-> "oetf"]

\* The characters int(s, 16) reads as digits, in the order of their values
\* (lower case, then the upper-case letters).
HexChars ==
    <<"0", "1", "2", "3", "4", "5", "6", "7", "8", "9",
      "a", "b", "c", "d", "e", "f", "A", "B", "C", "D", "E", "F">>

IsHexChar(c) == \E i \in 1..Len(HexChars) : HexChars[i] = c

HexCharValue(c) ==
    LET i == CHOOSE j \in 1..Len(HexChars) : HexChars[j] = c
    IN  IF i <= 16 THEN i - 1 ELSE i - 7

\* str.lstrip("#"): every leading '#' is removed.
RECURSIVE LStripHash(_)
LStripHash(s) ==
    IF Len(s) > 0 /\ Head(s) = "#" THEN LStripHash(Tail(s)) ELSE s

\* int(c1 + c2, 16) of a two-character string: <<value>>, or << >> when
\* Python raises ValueError.  int() strips surrounding white space and reads
\* one sign.
IntBase16(c1, c2) ==
    IF IsHexChar(c1) /\ IsHexChar(c2)
      THEN <<16 * HexCharValue(c1) + HexCharValue(c2)>>
    ELSE IF c1 = " " /\ IsHexChar(c2) THEN <<HexCharValue(c2)>>
    ELSE IF IsHexChar(c1) /\ c2 = " " THEN <<HexCharValue(c1)>>
    ELSE IF c1 = "+" /\ IsHexChar(c2) THEN <<HexCharValue(c2)>>
    ELSE IF c1 = "-" /\ IsHexChar(c2) THEN <<0 - HexCharValue(c2)>>
    ELSE << >>

\* hex_to_rgb: [ok |-> TRUE, rgb |-> <<r, g, b>>] with the channels in
\* 1/One, or ok |-> FALSE when it raises ValueError.  A hex code is a
\* sequence of one-character strings.
hex_to_rgb(hex_code) ==
    LET h == LStripHash(hex_code)
        v == [i \in 1..3 |-> IntBase16(h[2 * i - 1], h[2 * i])]
    IN  IF Len(h) # 6 THEN [ok |-> FALSE, rgb |-> << >>]
        ELSE IF \E i \in 1..3 : v[i] = << >> THEN [ok |-> FALSE, rgb |-> << >>]
        ELSE [ok |-> TRUE,
              rgb |-> [i \in 1..3 |-> v[i][1] * (One \div 255)]]

(* ------------------- the colour-science library ----------------------- *)

\* colour.models.log_decoding(x, method): the decoded scene-linear value at
\* the code values k/12, k = 0..12 (which hold every grid coordinate of the
\* cube sizes 2..5), from the published decoding formula of each curve.
LogDecodeKnots ==
         "S-Log3" :>
        <<
          <<0, -14024>>, <<10000, -1439>>, <<20000, 11145>>,
          <<30000, 34735>>, <<40000, 84766>>, <<50000, 190749>>,
          <<60000, 415263>>, <<70000, 890869>>, <<80000,
          1898383>>, <<90000, 4032681>>, <<100000, 8553934>>,
          <<110000, 18131664>>, <<120000, 38420934>>
        >>
      @@ "V-Log" :>
        <<
          <<0, -22321>>, <<10000, -7440>>, <<20000, 7440>>,
          <<30000, 27431>>, <<40000, 71305>>, <<50000, 168415>>,
          <<60000, 383349>>, <<70000, 859069>>, <<80000,
          1911992>>, <<90000, 4242456>>, <<100000, 9400535>>,
          <<110000, 20817050>>, <<120000, 46085528>>
        >>
      @@ "Canon Log 3" :>
        <<
          <<0, -151595>>, <<10000, -54925>>, <<20000, -1616>>,
          <<30000, 49923>>, <<40000, 142388>>, <<50000, 312586>>,
          <<60000, 625864>>, <<70000, 1202507>>, <<80000,
          2263916>>, <<90000, 4217620>>, <<100000, 7813745>>,
          <<110000, 14433028>>, <<120000, 26616947>>
        >>
      @@ "ARRI LogC3" :>
        <<
          <<0, -17290>>, <<10000, -1765>>, <<20000, 14025>>,
          <<30000, 41520>>, <<40000, 101275>>, <<50000, 231142>>,
          <<60000, 513383>>, <<70000, 1126783>>, <<80000,
          2459894>>, <<90000, 5357164>>, <<100000, 11653841>>,
          <<110000, 25338503>>, <<120000, 55079577>>
        >>
      @@ "Log3G10" :>
        <<
          <<0, -10000>>, <<10000, -1328>>, <<20000, 19075>>,
          <<30000, 67074>>, <<40000, 180001>>, <<50000, 445676>>,
          <<60000, 1070716>>, <<70000, 2541211>>, <<80000,
          6000761>>, <<90000, 14139848>>, <<100000, 33288215>>,
          <<110000, 78337488>>, <<120000, 184322348>>
        >>

log_decoding(x, method) ==
    LET t == LogDecodeKnots[method]
        k == Max(1, Min(Len(t) - 1, x \div (GridOne \div 12) + 1))
    IN  IF x = t[k][1] THEN t[k][2]
        ELSE IF x = t[k + 1][1] THEN t[k + 1][2]
        ELSE Lerp(t[k][1], t[k][2], t[k + 1][1], t[k + 1][2], x)

\* colourspace.matrix_RGB_to_XYZ[1, :]: the luminance (CIE Y) row of each
\* colourspace, derived from its primaries and the D65 white point.
LuminanceRow ==
         "S-Gamut3.Cine" :> <<2151, 8851, -1001>>
      @@ "V-Gamut" :> <<2607, 7749, -356>>
      @@ "Cinema Gamut" :> <<2613, 8696, -1309>>
      @@ "ARRI Wide Gamut 3" :> <<2920, 8238, -1158>>
      @@ "REDWideGamutRGB" :> <<2867, 8430, -1297>>
      @@ "ITU-R BT.709" :> <<2126, 7152, 722>>
      @@ "ITU-R BT.2020" :> <<2627, 6780, 593>>

\* The matrix colour.RGB_to_RGB applies from a camera gamut to a target
\* gamut (both D65, so no chromatic adaptation): rows of coefficients.
RGBToRGBMatrix ==
         <<"S-Gamut3.Cine", "ITU-R BT.709">> :>
           <<<<16269, -5401, -868>>,
             <<-1785, 14179, -2394>>,
             <<-444, -1959, 12404>>>>
      @@ <<"S-Gamut3.Cine", "ITU-R BT.2020">> :>
           <<<<9600, 1195, -796>>,
             <<-522, 12643, -2121>>,
             <<-288, -595, 10884>>>>
      @@ <<"V-Gamut", "ITU-R BT.709">> :>
           <<<<18066, -6957, -1109>>,
             <<-1701, 13060, -1359>>,
             <<-252, -1545, 11797>>>>
      @@ <<"V-Gamut", "ITU-R BT.2020">> :>
           <<<<10764, -131, -632>>,
             <<-319, 11511, -1192>>,
             <<-79, -348, 10427>>>>
      @@ <<"Cinema Gamut", "ITU-R BT.709">> :>
           <<<<19239, -7988, -1251>>,
             <<-2043, 14959, -2916>>,
             <<-237, -4201, 14438>>>>
      @@ <<"Cinema Gamut", "ITU-R BT.2020">> :>
           <<<<11387, -268, -1120>>,
             <<-552, 13156, -2604>>,
             <<-77, -2577, 12654>>>>
      @@ <<"ARRI Wide Gamut 3", "ITU-R BT.709">> :>
           <<<<16175, -5373, -802>>,
             <<-706, 13346, -2640>>,
             <<-211, -2270, 12481>>>>
      @@ <<"ARRI Wide Gamut 3", "ITU-R BT.2020">> :>
           <<<<9907, 925, -832>>,
             <<466, 11875, -2342>>,
             <<14, -946, 10932>>>>
      @@ <<"REDWideGamutRGB", "ITU-R BT.709">> :>
           <<<<19820, -9004, -815>>,
             <<-1781, 15005, -3223>>,
             <<-1018, -5353, 16371>>>>
      @@ <<"REDWideGamutRGB", "ITU-R BT.2020">> :>
           <<<<11804, -940, -864>>,
             <<-280, 13114, -2834>>,
             <<-744, -3621, 14364>>>>

\* sum of v[i] * w[i], the coefficients w in 1/CoefOne.
Dot(v, w) ==
    MulDiv(v[1], w[1], CoefOne) + MulDiv(v[2], w[2], CoefOne)
      + MulDiv(v[3], w[3], CoefOne)

\* The BT.709 / BT.2020 (10-bit) OETF above the linear segment,
\* 1.099 * L^0.45 - 0.099, at L = 0.018 * 2^(k/2): <<L in 1/LinOne, E in
\* 1/Res>>.
OETFKnots ==
    <<
      <<18000, 83>>, <<25456, 114>>, <<36000, 150>>, <<50912, 193>>,
      <<72000, 242>>, <<101823, 300>>, <<144000, 368>>, <<203647,
      447>>, <<288000, 539>>, <<407294, 647>>, <<576000, 774>>,
      <<814587, 921>>, <<1152000, 1094>>, <<1629174, 1295>>,
      <<2304000, 1531>>, <<3258348, 1806>>, <<4608000, 2128>>,
      <<6516696, 2505>>, <<9216000, 2944>>, <<13033392, 3458>>,
      <<18432000, 4059>>, <<26066784, 4761>>, <<36864000, 5582>>,
      <<52133569, 6541>>, <<73728000, 7662>>, <<104267138, 8972>>,
      <<147456000, 10504>>, <<208534275, 12293>>, <<294912000,
      14385>>, <<417068550, 16830>>, <<589824000, 19688>>
    >>

\* colour.models.oetf(L, function) for "ITU-R BT.709" and "ITU-R BT.2020":
\* 4.5 * L below 0.018 (negative values included), the power law above.
\* The result is in 1/One, a multiple of 1023.
oetf(L) ==
    1023 * (IF L < 18000 THEN MulDiv(L, (9 * Res) \div 20, LinOne \div 10)
            ELSE Interp(OETFKnots, L))

\* colour.models.log_encoding(x, method) for "S-Log3" above the linear segment,
\* (420 + log10((x + 0.01) / 0.19) * 261.5) / 1023, at
\* x = 0.01125 * 2^(k/2): <<x in 1/LinOne, code in 1/Res>>.
LogEncodeKnots ==
    "S-Log3" :>
    <<
      <<11250, 171>>, <<15910, 193>>, <<22500, 219>>, <<31820, 247>>,
      <<45000, 278>>, <<63640, 311>>, <<90000, 346>>, <<127279, 382>>,
      <<180000, 419>>, <<254558, 456>>, <<360000, 494>>, <<509117, 533>>,
      <<720000, 571>>, <<1018234, 610>>, <<1440000, 649>>,
      <<2036468, 688>>, <<2880000, 727>>, <<4072935, 766>>,
      <<5760000, 805>>, <<8145870, 844>>, <<11520000, 884>>,
      <<16291740, 923>>, <<23040000, 962>>, <<32583480, 1001>>,
      <<46080000, 1041>>, <<65166961, 1080>>, <<92160000, 1119>>,
      <<130333922, 1158>>, <<184320000, 1198>>, <<260667844, 1237>>,
      <<368640000, 1276>>
    >>

\* colour.models.log_encoding(x, method): for "S-Log3", below 0.01125 the
\* line (x * (171.2102946929 - 95) / 0.01125 + 95) / 1023, the logarithm
\* above.  The result is in 1/One, a multiple of 1023.  S-Log3 is the one
\* log-encoding a target of this model names.
log_encoding(x, method) ==
    1023 * (IF x < 11250 THEN 95 + MulDiv(x, 3377, LinOne \div 2)
            ELSE Interp(LogEncodeKnots[method], x))

\* The names the library resolves: the keys of colour.RGB_COLOURSPACES,
\* colour.LOG_DECODINGS, colour.LOG_ENCODINGS and colour.OETFS that a
\* profile table of this model can name.
RGB_COLOURSPACES == DOMAIN LuminanceRow
LOG_DECODINGS == DOMAIN LogDecodeKnots
LOG_ENCODINGS == DOMAIN LogDecodeKnots
OETFS == {"ITU-R BT.709", "ITU-R BT.2020", "ITU-R BT.601", "SMPTE 240M"}

\* 1000 * log2(x) at x = 2^(k/4), for np.log2.
Log2Knots ==
    <<
      <<1, 0>>, <<2, 1000>>, <<3, 1585>>, <<4, 2000>>, <<5, 2322>>,
      <<6, 2585>>, <<7, 2807>>, <<8, 3000>>, <<10, 3322>>, <<11,
      3459>>, <<13, 3700>>, <<16, 4000>>, <<19, 4248>>, <<23, 4524>>,
      <<27, 4755>>, <<32, 5000>>, <<38, 5248>>, <<45, 5492>>, <<54,
      5755>>, <<64, 6000>>, <<76, 6248>>, <<91, 6508>>, <<108, 6755>>,
      <<128, 7000>>, <<152, 7248>>, <<181, 7500>>, <<215, 7748>>,
      <<256, 8000>>, <<304, 8248>>, <<362, 8500>>, <<431, 8752>>,
      <<512, 9000>>, <<609, 9250>>, <<724, 9500>>, <<861, 9750>>,
      <<1024, 10000>>, <<1218, 10250>>, <<1448, 10500>>, <<1722,
      10750>>, <<2048, 11000>>, <<2435, 11250>>, <<2896, 11500>>,
      <<3444, 11750>>, <<4096, 12000>>, <<4871, 12250>>, <<5793,
      12500>>, <<6889, 12750>>, <<8192, 13000>>, <<9742, 13250>>,
      <<11585, 13500>>, <<13777, 13750>>, <<16384, 14000>>, <<19484,
      14250>>, <<23170, 14500>>, <<27554, 14750>>, <<32768, 15000>>,
      <<38968, 15250>>, <<46341, 15500>>, <<55109, 15750>>, <<65536,
      16000>>, <<77936, 16250>>, <<92682, 16500>>, <<110218, 16750>>,
      <<131072, 17000>>, <<155872, 17250>>, <<185364, 17500>>,
      <<220436, 17750>>, <<262144, 18000>>, <<311744, 18250>>,
      <<370728, 18500>>, <<440872, 18750>>, <<524288, 19000>>,
      <<623487, 19250>>, <<741455, 19500>>, <<881744, 19750>>,
      <<1048576, 20000>>, <<1246974, 20250>>, <<1482910, 20500>>,
      <<1763488, 20750>>, <<2097152, 21000>>, <<2493948, 21250>>,
      <<2965821, 21500>>, <<3526975, 21750>>, <<4194304, 22000>>,
      <<4987896, 22250>>, <<5931642, 22500>>, <<7053950, 22750>>,
      <<8388608, 23000>>, <<9975792, 23250>>, <<11863283, 23500>>,
      <<14107901, 23750>>, <<16777216, 24000>>, <<19951585, 24250>>,
      <<23726566, 24500>>, <<28215802, 24750>>, <<33554432, 25000>>,
      <<39903169, 25250>>, <<47453133, 25500>>, <<56431603, 25750>>,
      <<67108864, 26000>>, <<79806339, 26250>>, <<94906266, 26500>>,
      <<112863206, 26750>>, <<134217728, 27000>>, <<159612677,
      27250>>, <<189812531, 27500>>, <<225726413, 27750>>,
      <<268435456, 28000>>, <<319225354, 28250>>, <<379625062,
      28500>>, <<451452825, 28750>>, <<536870912, 29000>>
    >>

log2(x) == Interp(Log2Knots, x)

(* ------------------------------- state -------------------------------- *)

VARIABLES
    req,          \* the arguments of the call
    pc,           \* where generate_lut stands
    samples,      \* the log-encoded grid
    band_values,  \* the exposure metric of each sample
    final_data,   \* the output rows being built
    black_mask,   \* rows painted by the black-clip indicator
    white_mask,   \* rows painted by the white-clip indicator
    comments,     \* the header
    file,         \* the .cube file at the output path, or the saved config
    err,          \* the exception raised to the caller
    registry,     \* the profile tables of data.py, as the process holds them
    now,          \* the wall clock, in seconds
    prev,         \* an earlier call: the file it wrote, or its arguments
    arg,          \* the argument of a call of a helper of data.py
    ret,          \* what that call, or validate_profiles, returned or raised
    cli,          \* the locals of build and of the prompt helpers of cli.py
    user          \* the person at the terminal: what they may still type

vars ==
    <<req, pc, samples, band_values, final_data, black_mask, white_mask,
      comments, file, err, registry, cli, user, now, prev, arg, ret>>

(* ------------------------------ engine.py ----------------------------- *)

\* The grid coordinate i/(N-1), i in 0..N-1.
Coord(i, N) == IF N = 1 THEN 0 ELSE (i * GridOne) \div (N - 1)

\* The rows of colour.LUT3D(size=N).table.reshape(-1, 3): row s holds the
\* log-encoded code values of grid node s.  A grid of size 1 is the single
\* node 0, a grid of size 0 has no node.
Rows(N) == 0..(N * N * N - 1)

LUT3DTable(N) ==
    [s \in Rows(N) |->
       <<Coord(s \div (N * N), N), Coord((s \div N) % N, N), Coord(s % N, N)>>]

\* 3. log -> scene-linear, per channel.
LinearRow(v, profile) ==
    <<log_decoding(v[1], profile.log), log_decoding(v[2], profile.log),
      log_decoding(v[3], profile.log)>>

LinearData(smp, profile) ==
    [s \in DOMAIN smp |-> LinearRow(smp[s], profile)]

\* 4. stops = log2(max(Y, 1e-6) / MIDDLE_GREY), Y on the source gamut's
\* luminance row; in 1/1000 stop.
StopsOfRow(v, profile) ==
    log2(Max(Dot(v, LuminanceRow[profile.gamut]), 1)) - log2(MIDDLE_GREY)

Stops(linear, profile) ==
    [s \in DOMAIN linear |-> StopsOfRow(linear[s], profile)]

\* 5. colour.RGB_to_RGB(linear_data, src_cs, tgt_cs): no clipping.
ConvertRow(v, m) == <<Dot(v, m[1]), Dot(v, m[2]), Dot(v, m[3])>>

RGB_to_RGB(linear, src, tgt) ==
    [s \in DOMAIN linear |-> ConvertRow(linear[s], RGBToRGBMatrix[src, tgt])]

\* 5b. monochrome: R = G = B = Y of the target-gamut linear data.
MonochromeRow(v, target) ==
    LET Y_tgt == Dot(v, LuminanceRow[target.gamut])
    IN  <<Y_tgt, Y_tgt, Y_tgt>>

\* Mutant: the monochrome flag builds no grey base.
MonochromeBase_skipped(lin_tgt, target) == lin_tgt

MonochromeBase(lin_tgt, target) ==
    [s \in DOMAIN lin_tgt |-> MonochromeRow(lin_tgt[s], target)]

\* target.get("encoding", "oetf")
Encoding(target) ==
    IF "encoding" \in DOMAIN target THEN target.encoding ELSE "oetf"

\* 6. the display transfer function: colour.models.oetf when the encoding
\* is "oetf", colour.models.log_encoding for every other encoding.
TransferRow(v, target) ==
    IF Encoding(target) = "oetf"
      THEN <<oetf(v[1]), oetf(v[2]), oetf(v[3])>>
      ELSE <<log_encoding(v[1], target.gamma),
             log_encoding(v[2], target.gamma),
             log_encoding(v[3], target.gamma)>>

\* ok |-> FALSE when the library does not know target["gamma"] as a curve
\* of the branch taken, and raises ValueError.
TransferFunction(lin_tgt, target) ==
    IF (IF Encoding(target) = "oetf" THEN target.gamma \in OETFS
        ELSE target.gamma \in LOG_ENCODINGS)
      THEN [ok |-> TRUE,
            data |-> [s \in DOMAIN lin_tgt |-> TransferRow(lin_tgt[s], target)]]
      ELSE [ok |-> FALSE, data |-> << >>]

\* 6b. ire = dot(final_data, target luminance row) * 100; in 1/1000 IRE.
IreOfRow(v, target) ==
    MulDiv(Dot(v, LuminanceRow[target.gamut]) \div 1023, 100 * 1000, Res)

Ire(encoded, target) ==
    [s \in DOMAIN encoded |-> IreOfRow(encoded[s], target)]

\* Mutant: the bands are matched on the IRE in either mode.
BandMetric_always_ire(band_mode, ire, stops) == ire

\* band_values = ire if band_mode == "ire" else stops
BandMetric(band_mode, ire, stops) ==
    IF band_mode = "ire" THEN ire ELSE stops

\* Mutant: the interval of a band is open.
BandMask_open(metric, band) ==
    {s \in DOMAIN metric :
       /\ metric[s] > band.stop - band.width
       /\ metric[s] < band.stop + band.width}

\* The mask of one band: center - width <= metric <= center + width.
BandMask(metric, band) ==
    {s \in DOMAIN metric :
       /\ metric[s] >= band.stop - band.width
       /\ metric[s] <= band.stop + band.width}

\* data[mask] = rgb
Paint(data, mask, rgb) ==
    [s \in DOMAIN data |-> IF s \in mask THEN rgb ELSE data[s]]

\* Mutant: the first band of the list wins on overlap.
RECURSIVE ApplyBands_first_wins(_, _, _, _)
ApplyBands_first_wins(data, metric, bands, i) ==
    IF i > Len(bands) THEN [ok |-> TRUE, data |-> data]
    ELSE LET rest == ApplyBands_first_wins(data, metric, bands, i + 1)
             rgb == hex_to_rgb(bands[i].color)
         IN  IF ~rgb.ok \/ ~rest.ok THEN [ok |-> FALSE, data |-> data]
             ELSE [ok |-> TRUE,
                   data |-> Paint(rest.data,
                                  BandMask(metric, bands[i]), rgb.rgb)]

\* 7. the band loop over bands[i..]: the data after the loop, or
\* ok |-> FALSE when hex_to_rgb raises on a band's colour.
RECURSIVE ApplyBands(_, _, _, _)
ApplyBands(data, metric, bands, i) ==
    IF i > Len(bands) THEN [ok |-> TRUE, data |-> data]
    ELSE LET rgb == hex_to_rgb(bands[i].color)
         IN  IF ~rgb.ok THEN [ok |-> FALSE, data |-> data]
             ELSE ApplyBands(
                    Paint(data, BandMask(metric, bands[i]), rgb.rgb),
                    metric, bands, i + 1)

\* Mutant: the tolerance is a whole grid step.
ClipTol_full_step(N) == GridOne \div (N - 1)

\* 8. clip_tol = (1.0 / (cube_size - 1)) / 2.0
ClipTol(N) == (GridOne \div (N - 1)) \div 2

ChannelMin(v) == Min(v[1], Min(v[2], v[3]))
ChannelMax(v) == Max(v[1], Max(v[2], v[3]))

\* Mutant: the black mask tests the maximum channel.
BlackMask_by_max(smp, profile, N) ==
    {s \in DOMAIN smp : ChannelMax(smp[s]) <= profile.log_floor + ClipTol(N)}

\* Mutant: the black mask tests the display values built so far.
BlackMask_display(smp, profile, N) ==
    {s \in DOMAIN final_data :
       MulDiv(ChannelMin(final_data[s]) \div 1023, GridOne \div 60, Res \div 60)
         <= profile.log_floor + ClipTol(N)}

BlackMask(smp, profile, N) ==
    {s \in DOMAIN smp : ChannelMin(smp[s]) <= profile.log_floor + ClipTol(N)}

WhiteMask(smp, profile, N) ==
    {s \in DOMAIN smp : ChannelMax(smp[s]) >= profile.log_ceiling - ClipTol(N)}

\* Mutant: the scale is legal_high instead of legal_high - legal_low.
LegalRescale_scale_high(x) == (x \div 1023) * 940 + 64 * Res

\* 10. final_data * (legal_high - legal_low) + legal_low, with
\* legal_low = 64/1023 and legal_high = 940/1023.
LegalRescale(x) == (x \div 1023) * (940 - 64) + 64 * Res

\* Mutant: only the upper limit is clamped.
Clip01_upper_only(x) == Min(One, x)

\* 11. np.clip(final_data, 0, 1)
Clip01(x) == Max(0, Min(One, x))

\* Mutant: the writer takes a table of any size.
WritableSize_any(size) == TRUE

\* colour.write_LUT: the .cube writer refuses a 3D table whose size is not
\* in 2..256, before it opens the file.
WritableSize(size) == 2 <= size /\ size <= 256

\* Mutant: an unknown name falls back on an entry of the table.
Lookup_default(table, name) ==
    <<table[IF name \in DOMAIN table THEN name
            ELSE CHOOSE n \in DOMAIN table : TRUE]>>

\* table[name]: <<entry>>, or << >> when Python raises KeyError.
Lookup(table, name) ==
    IF name \in DOMAIN table THEN <<table[name]>> ELSE << >>

\* The stops value of a sample whose luminance is at or under the 1e-6
\* floor of np.maximum(Y, 1e-6).
MinStops == log2(1) - log2(MIDDLE_GREY)

(* --------------------- data.py: validate_profiles --------------------- *)

\* The entries validate_profiles appends a message for, as <<name, what>>;
\* the keys of a dict are distinct, so no message repeats.
ProfileErrors(reg) ==
    {<<n, "gamut">> : n \in {m \in DOMAIN reg.cameras :
        reg.cameras[m].gamut \notin RGB_COLOURSPACES}}
      \cup
    {<<n, "log method">> : n \in {m \in DOMAIN reg.cameras :
        reg.cameras[m].log \notin LOG_DECODINGS}}
      \cup
    {<<n, "target gamut">> : n \in {m \in DOMAIN reg.targets :
        reg.targets[m].gamut \notin RGB_COLOURSPACES}}
      \cup
    {<<n, "OETF function">> : n \in {m \in DOMAIN reg.targets :
        /\ reg.targets[m].encoding = "oetf"
        /\ reg.targets[m].gamma \notin OETFS}}
      \cup
    {<<n, "log encoding">> : n \in {m \in DOMAIN reg.targets :
        /\ reg.targets[m].encoding # "oetf"
        /\ reg.targets[m].gamma \notin LOG_ENCODINGS}}

\* Mutant: the error names the first broken entry only.
validate_profiles_first_only(reg) ==
    LET errors == ProfileErrors(reg)
    IN  [raised |-> errors # {},
         errors |-> IF errors = {} THEN {}
                    ELSE {CHOOSE e \in errors : TRUE}]

\* validate_profiles: raises ValueError with every message when there is
\* one, returns None otherwise.
validate_profiles(reg) ==
    LET errors == ProfileErrors(reg)
    IN  [raised |-> errors # {}, errors |-> errors]

(* ------------------------------ requests ------------------------------ *)

Magenta == <<"#", "F", "F", "0", "0", "F", "F">>
Red == <<"#", "F", "F", "0", "0", "0", "0">>
Green == <<"#", "0", "0", "F", "F", "0", "0">>
Blue == <<"#", "0", "0", "0", "0", "F", "F">>
Empty == << >>

\* Bands a request may list: centre and width in 1/1000 stop or IRE.  The
\* two overlap, in stops as in IRE.
BandA == [stop |-> 0, color |-> Green, width |-> 30000]
BandB == [stop |-> 20000, color |-> Blue, width |-> 19000]
BandPool == {BandA, BandB}

BandLists == UNION {[1..n -> BandPool] : n \in 0..MaxBands}

ProfileNames == DOMAIN CAMERA_PROFILES \cup {"Nikon N-Log"}
TargetNames == DOMAIN TARGET_PROFILES \cup {"DCI-P3"}

Requests ==
    [profile_name : ProfileNames, target_name : TargetNames,
     cube_size : 2..MaxN, bands : BandLists, band_mode : {"stops", "ire"},
     black_clip : BOOLEAN, black_hex : {Magenta},
     white_clip : BOOLEAN, white_hex : {Red},
     monochrome : BOOLEAN, legal_range : BOOLEAN]

\* A colour hex_to_rgb raises on: five characters after the '#'.
BadHex == <<"#", "F", "F", "0", "0", "F">>

\* Bands at the edge of the contract: a colour that is no colour, a zero and
\* a negative width, and intervals that end or start exactly on MinStops.
BandBad == [stop |-> 0, color |-> BadHex, width |-> 30000]
BandZero == [stop |-> MinStops, color |-> Green, width |-> 0]
BandNegative == [stop |-> MinStops, color |-> Blue, width |-> 0 - 1000]
BandBelow == [stop |-> MinStops - 1000, color |-> Green, width |-> 1000]
BandAbove == [stop |-> MinStops + 1000, color |-> Blue, width |-> 1000]

\* Requests with a cube size under 2.
SizeRequests ==
    [profile_name : {"Sony S-Log3", "RED Log3G10"}, target_name : {"Rec.709"},
     cube_size : {0 - 1, 0, 1},
     bands : {<< >>, <<BandA>>, <<BandBad>>},
     band_mode : {"stops", "ire"},
     black_clip : BOOLEAN, black_hex : {Magenta},
     white_clip : {FALSE}, white_hex : {Red},
     monochrome : {FALSE}, legal_range : BOOLEAN]

\* Requests whose colours are empty or no colours.
HexRequests ==
    [profile_name : {"Sony S-Log3"}, target_name : {"Rec.709"},
     cube_size : {2},
     bands : {<< >>, <<BandBad>>, <<BandA, BandBad>>},
     band_mode : {"stops"},
     black_clip : BOOLEAN, black_hex : {Magenta, BadHex, Empty},
     white_clip : BOOLEAN, white_hex : {Red, BadHex, Empty},
     monochrome : {FALSE}, legal_range : {FALSE}]

\* Requests whose bands are at the edge of the contract.
WidthRequests ==
    [profile_name : DOMAIN CAMERA_PROFILES, target_name : {"Rec.709"},
     cube_size : {2, 3},
     bands : {<<BandZero>>, <<BandNegative>>, <<BandBelow>>, <<BandAbove>>,
              <<BandA, BandZero>>, <<BandNegative, BandA>>},
     band_mode : {"stops", "ire"},
     black_clip : {FALSE}, black_hex : {Magenta},
     white_clip : BOOLEAN, white_hex : {Red},
     monochrome : {FALSE}, legal_range : {FALSE}]

\* Requests that name a camera or a target the tables do not hold.
UnknownRequests ==
    {r \in [profile_name : {"Sony S-Log3", "Nikon N-Log"},
            target_name : {"Rec.709", "DCI-P3"},
            cube_size : {2}, bands : {<< >>, <<BandA>>},
            band_mode : {"stops"},
            black_clip : {TRUE}, black_hex : {Magenta},
            white_clip : {TRUE}, white_hex : {Red},
            monochrome : {FALSE}, legal_range : BOOLEAN] :
       r.profile_name = "Nikon N-Log" \/ r.target_name = "DCI-P3"}

EdgeRequests ==
    SizeRequests \cup HexRequests \cup WidthRequests \cup UnknownRequests

\* Targets a caller has added to TARGET_PROFILES: a log-encoded target, a
\* target that declares no encoding, and targets that declare another one.
ExtraTargets ==
       "Log Target" :>
         [gamut |-> "ITU-R BT.709", gamma |-> "S-Log3", encoding |-> "log"]
    @@ "No Kind" :>
         [gamut |-> "ITU-R BT.709", gamma |-> "ITU-R BT.709"]
    @@ "Other Kind" :>
         [gamut |-> "ITU-R BT.2020", gamma |-> "S-Log3", encoding |-> "gamma"]
    @@ "Power Law" :>
         [gamut |-> "ITU-R BT.709", gamma |-> "ITU-R BT.709",
          encoding |-> "gamma"]
    @@ "Log As OETF" :>
         [gamut |-> "ITU-R BT.709", gamma |-> "S-Log3", encoding |-> "oetf"]

\* Requests for the added targets.
CustomRequests ==
    [profile_name : {"Sony S-Log3", "RED Log3G10"},
     target_name : DOMAIN ExtraTargets,
     cube_size : {2}, bands : {<< >>, <<BandA>>},
     band_mode : {"stops", "ire"},
     black_clip : {FALSE}, black_hex : {Magenta},
     white_clip : BOOLEAN, white_hex : {Red},
     monochrome : BOOLEAN, legal_range : BOOLEAN]

\* The tables as data.py defines them, and with the added targets.
Shipped == [cameras |-> CAMERA_PROFILES, targets |-> TARGET_PROFILES]
Extended ==
    [cameras |-> CAMERA_PROFILES, targets |-> TARGET_PROFILES @@ ExtraTargets]

NoFile == [exists |-> FALSE]
NoComments == [bands |-> << >>, clips |-> << >>]

\* A file that stands at the output path before the call.
OldFile ==
    [exists |-> TRUE, size |-> 2, comments |-> NoComments, table |-> << >>]

\* A call: <<request, profile tables, file at the output path>>.
Calls ==
    (Requests \X {Shipped} \X {NoFile})
      \cup (EdgeRequests \X {Shipped} \X {NoFile, OldFile})
      \cup (CustomRequests \X {Extended} \X {NoFile})

\* The state at the call of generate_lut, for one of the given calls.
InitCall(calls) ==
    /\ \E c \in calls : req = c[1] /\ registry = c[2] /\ file = c[3]
    /\ pc = "start"
    /\ samples = << >>
    /\ band_values = << >>
    /\ final_data = << >>
    /\ black_mask = {}
    /\ white_mask = {}
    /\ comments = NoComments
    /\ err = ""
    /\ now = 0
    /\ prev = NoFile
    /\ arg = << >>
    /\ ret = << >>
    /\ cli = << >>
    /\ user = << >>

Init == InitCall(Calls)

\* Mutant: the band loop stands after the clip indicators.
StepAfter_bands_last(p) ==
    CASE p = "start" -> "black"
      [] p = "black" -> "white"
      [] p = "white" -> "bands"
      [] p = "bands" -> "header"
      [] p = "header" -> "legal"
      [] p = "legal" -> "write"
      [] p = "write" -> "done"

\* Mutant: the legal-range scaling stands before the overlays.
StepAfter_legal_first(p) ==
    CASE p = "start" -> "legal"
      [] p = "legal" -> "bands"
      [] p = "bands" -> "black"
      [] p = "black" -> "white"
      [] p = "white" -> "header"
      [] p = "header" -> "write"
      [] p = "write" -> "done"

\* Mutant: the white-clip indicator stands before the black-clip one.
StepAfter_white_first(p) ==
    CASE p = "start" -> "bands"
      [] p = "bands" -> "white"
      [] p = "white" -> "black"
      [] p = "black" -> "header"
      [] p = "header" -> "legal"
      [] p = "legal" -> "write"
      [] p = "write" -> "done"

\* Mutant: the file is written as soon as the base image is built, and
\* rewritten at the end.
StepAfter_write_early(p) ==
    CASE p = "start" -> "write"
      [] p = "write" -> "bands"
      [] p = "bands" -> "black"
      [] p = "black" -> "white"
      [] p = "white" -> "header"
      [] p = "header" -> "legal"
      [] p = "legal" -> "done"

\* The order of the blocks of generate_lut: the block that follows block p.
StepAfter(p) ==
    CASE p = "start" -> "bands"
      [] p = "bands" -> "black"
      [] p = "black" -> "white"
      [] p = "white" -> "header"
      [] p = "header" -> "legal"
      [] p = "legal" -> "write"
      [] p = "write" -> "done"

Raise(e) ==
    /\ pc' = "error"
    /\ err' = e

\* Lines 37-122 for one camera, target, cube size and monochrome flag: the
\* grid, the stops, the encoded base image and its IRE, or ok |-> FALSE when
\* the transfer function raises.
BaseImage(profile, target, N, monochrome) ==
    LET smp == LUT3DTable(N)
        linear_data == LinearData(smp, profile)
        converted == RGB_to_RGB(linear_data, profile.gamut, target.gamut)
        rgb_linear_tgt == IF monochrome
                            THEN MonochromeBase(converted, target)
                            ELSE converted
        encoded == TransferFunction(rgb_linear_tgt, target)
    IN  IF encoded.ok
          THEN [ok |-> TRUE, samples |-> smp,
                stops |-> Stops(linear_data, profile),
                encoded |-> encoded.data,
                ire |-> Ire(encoded.data, target)]
          ELSE [ok |-> FALSE]

\* BaseImage, computed once for every camera and target of the tables and
\* every cube size from 0 up.
BaseImages ==
    [k \in {CAMERA_PROFILES[n] : n \in DOMAIN CAMERA_PROFILES}
            \X {Extended.targets[n] : n \in DOMAIN Extended.targets}
            \X (0..MaxN) \X BOOLEAN |->
       BaseImage(k[1], k[2], k[3], k[4])] @@ << >>

\* Lines 31-131: the look-ups, the grid, and the base image with its metric.
\* np.linspace raises ValueError on a negative size.
Prepare ==
    /\ pc = "start"
    /\ LET p == Lookup(registry.cameras, req.profile_name)
           t == Lookup(registry.targets, req.target_name)
       IN  IF p = << >> \/ t = << >>
             THEN /\ Raise("KeyError")
                  /\ UNCHANGED <<samples, band_values, final_data>>
           ELSE IF req.cube_size < 0
             THEN /\ Raise("ValueError")
                  /\ UNCHANGED <<samples, band_values, final_data>>
           ELSE LET image == BaseImages[p[1], t[1], req.cube_size,
                                        req.monochrome]
                IN  IF image.ok
                      THEN /\ samples' = image.samples
                           /\ final_data' = image.encoded
                           /\ band_values' =
                                BandMetric(req.band_mode, image.ire,
                                           image.stops)
                           /\ pc' = StepAfter("start")
                           /\ err' = err
                      ELSE /\ Raise("ValueError")
                           /\ UNCHANGED <<samples, band_values, final_data>>
    /\ UNCHANGED <<req, black_mask, white_mask, comments, file>>
    /\ UNCHANGED <<registry, cli, user, now, prev, arg, ret>>

\* Lines 133-138: the false colour bands, in the caller's order.
Bands ==
    /\ pc = "bands"
    /\ LET r == ApplyBands(final_data, band_values, req.bands, 1)
       IN  IF r.ok
             THEN /\ final_data' = r.data
                  /\ pc' = StepAfter("bands")
                  /\ err' = err
             ELSE /\ Raise("ValueError")
                  /\ UNCHANGED final_data
    /\ UNCHANGED <<req, samples, band_values, black_mask, white_mask,
                   comments, file>>
    /\ UNCHANGED <<registry, cli, user, now, prev, arg, ret>>

\* Mutant: the toggle alone turns an indicator on.
ClipEnabled_toggle_only(toggle, hex) == toggle

\* "black_clip and black_hex", "white_clip and white_hex" (lines 160, 167,
\* 220, 222): the toggle is true and the colour is a non-empty string.
ClipEnabled(toggle, hex) == toggle /\ hex # << >>

\* Lines 155-165: the clip tolerance and the black-clip indicator.
\* 1.0 / (cube_size - 1) raises ZeroDivisionError for a cube of size 1.
BlackClip ==
    /\ pc = "black"
    /\ IF req.cube_size = 1
         THEN /\ Raise("ZeroDivisionError")
              /\ UNCHANGED <<final_data, black_mask>>
       ELSE IF ClipEnabled(req.black_clip, req.black_hex)
         THEN LET black_rgb == hex_to_rgb(req.black_hex)
                  mask == BlackMask(samples,
                                    registry.cameras[req.profile_name],
                                    req.cube_size)
              IN  IF black_rgb.ok
                    THEN /\ final_data' = Paint(final_data, mask, black_rgb.rgb)
                         /\ black_mask' = mask
                         /\ pc' = StepAfter("black")
                         /\ err' = err
                    ELSE /\ Raise("ValueError")
                         /\ UNCHANGED <<final_data, black_mask>>
         ELSE /\ pc' = StepAfter("black")
              /\ UNCHANGED <<final_data, black_mask, err>>
    /\ UNCHANGED <<req, samples, band_values, white_mask, comments, file>>
    /\ UNCHANGED <<registry, cli, user, now, prev, arg, ret>>

\* Lines 167-172: the white-clip indicator.
WhiteClip ==
    /\ pc = "white"
    /\ IF ClipEnabled(req.white_clip, req.white_hex)
         THEN LET white_rgb == hex_to_rgb(req.white_hex)
                  mask == WhiteMask(samples,
                                    registry.cameras[req.profile_name],
                                    req.cube_size)
              IN  IF white_rgb.ok
                    THEN /\ final_data' = Paint(final_data, mask, white_rgb.rgb)
                         /\ white_mask' = mask
                         /\ pc' = StepAfter("white")
                         /\ err' = err
                    ELSE /\ Raise("ValueError")
                         /\ UNCHANGED <<final_data, white_mask>>
         ELSE /\ pc' = StepAfter("white")
              /\ UNCHANGED <<final_data, white_mask, err>>
    /\ UNCHANGED <<req, samples, band_values, black_mask, comments, file>>
    /\ UNCHANGED <<registry, cli, user, now, prev, arg, ret>>

\* sorted(bands, key = stop): a new list, stable.
RECURSIVE SortedByStop(_)
SortedByStop(bands) ==
    IF Len(bands) <= 1 THEN bands
    ELSE LET m == CHOOSE i \in 1..Len(bands) :
                    /\ \A j \in 1..Len(bands) : bands[i].stop <= bands[j].stop
                    /\ \A j \in 1..(i - 1) : bands[j].stop > bands[i].stop
             rest == [j \in 1..(Len(bands) - 1) |->
                        IF j < m THEN bands[j] ELSE bands[j + 1]]
         IN  <<bands[m]>> \o SortedByStop(rest)

\* Mutant: the header sorts the caller's list in place (bands.sort).
BandsAfterSorted_in_place(bands) == SortedByStop(bands)

\* The caller's list after sorted(bands, ...): sorted() builds another list
\* and leaves its argument as it was.
BandsAfterSorted(bands) == bands

\* Lines 180-231: the comment header (its date, band and clip lines).
Header ==
    /\ pc = "header"
    /\ comments' =
         [generated |-> now,
          bands |-> SortedByStop(req.bands),
          clips |-> (IF ClipEnabled(req.black_clip, req.black_hex)
                       THEN <<<<"Crushed blacks", req.black_hex>>>>
                       ELSE << >>)
                    \o (IF ClipEnabled(req.white_clip, req.white_hex)
                          THEN <<<<"Clipped whites", req.white_hex>>>>
                          ELSE << >>)]
    /\ req' = [req EXCEPT !.bands = BandsAfterSorted(req.bands)]
    /\ pc' = StepAfter("header")
    /\ UNCHANGED <<samples, band_values, final_data, black_mask,
                   white_mask, file, err>>
    /\ UNCHANGED <<registry, cli, user, now, prev, arg, ret>>

\* Lines 243-246: the optional legal-range scaling.
LegalRange ==
    /\ pc = "legal"
    /\ final_data' =
         IF req.legal_range
           THEN [s \in DOMAIN final_data |->
                   [c \in 1..3 |-> LegalRescale(final_data[s][c])]]
           ELSE final_data
    /\ pc' = StepAfter("legal")
    /\ UNCHANGED <<req, samples, band_values, black_mask, white_mask,
                   comments, file, err>>
    /\ UNCHANGED <<registry, cli, user, now, prev, arg, ret>>

\* Lines 251-259: clamp, and write the .cube file.
WriteCube ==
    /\ pc = "write"
    /\ IF WritableSize(req.cube_size)
         THEN /\ file' =
                   [exists |-> TRUE, size |-> req.cube_size,
                    comments |-> comments,
                    table |-> [s \in DOMAIN final_data |->
                                 [c \in 1..3 |-> Clip01(final_data[s][c])]]]
              /\ pc' = StepAfter("write")
              /\ err' = err
         ELSE /\ Raise("AssertionError")
              /\ UNCHANGED file
    /\ UNCHANGED <<req, samples, band_values, final_data, black_mask,
                   white_mask, comments>>
    /\ UNCHANGED <<registry, cli, user, now, prev, arg, ret>>

Next ==
    \/ Prepare
    \/ Bands
    \/ BlackClip
    \/ WhiteClip
    \/ Header
    \/ LegalRange
    \/ WriteCube

Spec == Init /\ [][Next]_vars

(* -------------------------- hex_to_rgb alone -------------------------- *)

\* Most '#' a hex code starts with.
MaxHashes == 2

\* The characters of the first pair of a hex code.
HexPairChars == {"0", "9", "a", "F", "g", "+", "-", " ", "_", "#"}

\* The hex codes given to hex_to_rgb: up to MaxHashes '#', a first pair of
\* any two of the characters, and three, four or five characters more.
HexInputs ==
    {[i \in 1..k |-> "#"] \o <<c[1], c[2]>> \o tail :
       k \in 0..MaxHashes, c \in HexPairChars \X HexPairChars,
       tail \in {<<"0", "0", "F">>, <<"0", "0", "F", "F">>,
                 <<"0", "0", "F", "F", "0">>}}

\* The variables of generate_lut, when it is not called.
Idle ==
    /\ req = << >>
    /\ samples = << >>
    /\ band_values = << >>
    /\ final_data = << >>
    /\ black_mask = {}
    /\ white_mask = {}
    /\ comments = NoComments
    /\ file = NoFile
    /\ err = ""
    /\ now = 0
    /\ prev = NoFile
    /\ cli = << >>
    /\ user = << >>

InitHex ==
    /\ Idle
    /\ registry = Shipped
    /\ pc = "hex_to_rgb"
    /\ arg \in HexInputs
    /\ ret = << >>

\* A call hex_to_rgb(arg).
HexToRgb ==
    /\ pc = "hex_to_rgb"
    /\ ret' = hex_to_rgb(arg)
    /\ IF ret'.ok THEN pc' = "returned" /\ err' = err ELSE Raise("ValueError")
    /\ UNCHANGED <<req, samples, band_values, final_data, black_mask,
                   white_mask, comments, file, registry, cli, user, now, prev, arg>>

SpecHex == InitHex /\ [][HexToRgb]_vars

(* ----------------------- validate_profiles alone ---------------------- *)

\* Most identifiers of the tables that are mistyped at once.
MaxBroken == 2

\* The identifiers of the tables: <<table, name, field>>.
Identifiers ==
    ({"cameras"} \X (DOMAIN CAMERA_PROFILES) \X {"gamut", "log"})
      \cup ({"targets"} \X (DOMAIN TARGET_PROFILES) \X {"gamut", "gamma"})

\* The tables with the identifiers of `broken` mistyped, and each target
\* declaring the encoding kinds[name].
TablesWith(broken, kinds) ==
    [cameras |->
       [n \in DOMAIN CAMERA_PROFILES |->
          [CAMERA_PROFILES[n] EXCEPT
             !.gamut = IF <<"cameras", n, "gamut">> \in broken
                         THEN "S-Gamut3 Cine" ELSE @,
             !.log = IF <<"cameras", n, "log">> \in broken
                       THEN "SLog3" ELSE @]],
     targets |->
       [n \in DOMAIN TARGET_PROFILES |->
          [TARGET_PROFILES[n] EXCEPT
             !.gamut = IF <<"targets", n, "gamut">> \in broken
                         THEN "Rec709" ELSE @,
             !.gamma = IF <<"targets", n, "gamma">> \in broken
                         THEN "Rec709" ELSE @,
             !.encoding = kinds[n]]]]

\* The tables validate_profiles is run on.
Registries ==
    {TablesWith(broken, kinds) :
       broken \in {b \in SUBSET Identifiers : Cardinality(b) <= MaxBroken},
       kinds \in [DOMAIN TARGET_PROFILES -> {"oetf", "log"}]}

InitValidate ==
    /\ Idle
    /\ registry \in Registries
    /\ pc = "import"
    /\ arg = << >>
    /\ ret = << >>

\* Line 188: validate_profiles(), run when data.py is imported.
ValidateProfiles ==
    /\ pc = "import"
    /\ ret' = validate_profiles(registry)
    /\ IF ret'.raised THEN Raise("ValueError")
       ELSE pc' = "imported" /\ err' = err
    /\ UNCHANGED <<req, samples, band_values, final_data, black_mask,
                   white_mask, comments, file, registry, cli, user, now, prev, arg>>

SpecValidate == InitValidate /\ [][ValidateProfiles]_vars

(* ------------------------- the same call twice ------------------------ *)

\* The last second of the clock.
MaxClock == 2

\* The requests that are made twice.
AgainRequests ==
    [profile_name : {"Sony S-Log3", "ARRI LogC3"},
     target_name : {"Rec.709", "Rec.2020"},
     cube_size : {2}, bands : {<< >>, <<BandA, BandB>>},
     band_mode : {"stops"},
     black_clip : BOOLEAN, black_hex : {Magenta},
     white_clip : {TRUE}, white_hex : {Red},
     monochrome : BOOLEAN, legal_range : BOOLEAN]

InitAgain == InitCall(AgainRequests \X {Shipped} \X {NoFile})

\* A second of wall-clock time passes.
Tick ==
    /\ now < MaxClock
    /\ now' = now + 1
    /\ UNCHANGED <<req, pc, samples, band_values, final_data, black_mask,
                   white_mask, comments, file, err, registry, cli, user, prev, arg, ret>>

\* The caller keeps the file of the first call and calls generate_lut again
\* with the same request.
CallAgain ==
    /\ pc = "done"
    /\ ~prev.exists
    /\ prev' = file
    /\ pc' = "start"
    /\ samples' = << >>
    /\ band_values' = << >>
    /\ final_data' = << >>
    /\ black_mask' = {}
    /\ white_mask' = {}
    /\ comments' = NoComments
    /\ UNCHANGED <<req, file, err, registry, cli, user, now, arg, ret>>

NextAgain ==
    \/ Next
    \/ Tick
    \/ CallAgain

SpecAgain == InitAgain /\ [][NextAgain]_vars

(* ------------------------------ presets.py ---------------------------- *)

\* WIDTH_PRESETS and IRE_WIDTH_PRESETS: the width of each entry in 1/1000
\* stop or IRE, as <<width>>, and << >> for the None of the "Custom" entry.
WIDTH_PRESETS ==
    << [label |-> "Razor", width |-> <<50>>],
       [label |-> "Thin", width |-> <<100>>],
       [label |-> "Narrow", width |-> <<200>>],
       [label |-> "Standard", width |-> <<300>>],
       [label |-> "Wide", width |-> <<500>>],
       [label |-> "Custom", width |-> << >>] >>

IRE_WIDTH_PRESETS ==
    << [label |-> "Razor", width |-> <<1000>>],
       [label |-> "Thin", width |-> <<2000>>],
       [label |-> "Narrow", width |-> <<3000>>],
       [label |-> "Standard", width |-> <<5000>>],
       [label |-> "Wide", width |-> <<8000>>],
       [label |-> "Custom", width |-> << >>] >>

(* ------------------- the stops of the grey diagonal ------------------- *)

\* Cube sizes whose grid has the node (0.5, 0.5, 0.5).
GreySizes == {3, 5, 9, 17}

\* A camera, a cube size and the index of a node of the grey diagonal.
GreyInputs ==
    {a \in [profile_name : DOMAIN CAMERA_PROFILES, cube_size : GreySizes,
            index : 0..16] : a.index < a.cube_size}

InitGrey ==
    /\ Idle
    /\ registry = Shipped
    /\ pc = "samples"
    /\ arg \in GreyInputs
    /\ ret = << >>

\* Lines 31-73 for the node (i, i, i) of the grid: its code values, its
\* decoded scene-linear values and its stops.
StopsOfNode ==
    /\ pc = "samples"
    /\ LET profile == registry.cameras[arg.profile_name]
           c == Coord(arg.index, arg.cube_size)
           linear == LinearRow(<<c, c, c>>, profile)
       IN  ret' = [sample |-> <<c, c, c>>, linear |-> linear,
                   stops |-> StopsOfRow(linear, profile)]
    /\ pc' = "stops"
    /\ UNCHANGED <<req, samples, band_values, final_data, black_mask,
                   white_mask, comments, file, err, registry, cli, user, now, prev, arg>>

SpecGrey == InitGrey /\ [][StopsOfNode]_vars

(* ------------------ two calls that differ downstream ------------------ *)

\* The requests of the first call.
PairRequests ==
    [profile_name : {"Sony S-Log3", "RED Log3G10"},
     target_name : {"Rec.709", "Rec.2020", "Log Target"},
     cube_size : {2, MaxN},
     bands : {<<BandA>>, <<BandA, BandB>>, <<BandB, BandAbove>>},
     band_mode : {"stops", "ire"},
     black_clip : BOOLEAN, black_hex : {Magenta},
     white_clip : {TRUE}, white_hex : {Red},
     monochrome : BOOLEAN, legal_range : BOOLEAN]

InitPair == InitCall(PairRequests \X {Extended} \X {NoFile})

\* The caller keeps the request, the band metric and the table of the first
\* call, and calls generate_lut again with another target profile,
\* monochrome flag or legal-range flag and everything else as it was.
CallVariant ==
    /\ pc = "done"
    /\ ~prev.exists
    /\ prev' = [exists |-> TRUE, req |-> req, band_values |-> band_values,
                table |-> file.table]
    /\ \E t \in {"Rec.709", "Rec.2020", "Log Target"}, m, l \in BOOLEAN :
         req' = [req EXCEPT !.target_name = t, !.monochrome = m,
                            !.legal_range = l]
    /\ pc' = "start"
    /\ samples' = << >>
    /\ band_values' = << >>
    /\ final_data' = << >>
    /\ black_mask' = {}
    /\ white_mask' = {}
    /\ comments' = NoComments
    /\ UNCHANGED <<file, err, registry, cli, user, now, arg, ret>>

NextPair ==
    \/ Next
    \/ CallVariant

SpecPair == InitPair /\ [][NextPair]_vars

(* ------------------------- cli.py: the prompts ------------------------- *)

\* A Python float: nan, or a number in 1/1000.
Float(v) == [nan |-> FALSE, v |-> v]
NaN == [nan |-> TRUE, v |-> 0]

\* a < b on floats: False when either side is nan.
FloatLess(a, b) == ~a.nan /\ ~b.nan /\ a.v < b.v

\* float(part): <<the float>> for the texts float() reads as numbers,
\* among those a person types here, or << >> for ValueError.
float(part) ==
    LET literals ==
             "0" :> Float(0) @@ "1" :> Float(1000) @@ "2" :> Float(2000)
          @@ "3" :> Float(3000) @@ "6" :> Float(6000) @@ "7" :> Float(7000)
          @@ "-1" :> Float(0 - 1000) @@ "-2" :> Float(0 - 2000)
          @@ "0.15" :> Float(150) @@ "42" :> Float(42000) @@ "nan" :> NaN
    IN  IF part \in DOMAIN literals THEN <<literals[part]>> ELSE << >>

\* Lines 186-196: the parts that are numbers, in the order typed; empty
\* parts and parts float() rejects are skipped.
RECURSIVE ParseParts(_)
ParseParts(parts) ==
    IF parts = << >> THEN << >>
    ELSE (IF Head(parts) # "" THEN float(Head(parts)) ELSE << >>)
           \o ParseParts(Tail(parts))

\* raw.split(","), each part stripped, and the numbers among the parts.
parse_values(raw) ==
    ParseParts(CASE raw = "-1, 1" -> <<"-1", "1">>
                 [] raw = "1, nan, 0" -> <<"1", "nan", "0">>
                 [] raw = "x, 2" -> <<"x", "2">>
                 [] raw = "2, 2" -> <<"2", "2">>
                 [] OTHER -> <<raw>>)

\* sorted(values) on a list of up to three floats: CPython's run detection
\* and binary insertion, which for such a list place each element as
\* insertion from the right with "<" does; nan compares False both ways.
RECURSIVE InsertFloat(_, _)
InsertFloat(run, x) ==
    IF run = << >> THEN <<x>>
    ELSE IF FloatLess(x, run[Len(run)])
      THEN InsertFloat(SubSeq(run, 1, Len(run) - 1), x) \o <<run[Len(run)]>>
      ELSE run \o <<x>>

RECURSIVE SortFloats(_, _)
SortFloats(run, rest) ==
    IF rest = << >> THEN run
    ELSE SortFloats(InsertFloat(run, Head(rest)), Tail(rest))

sorted(values) == SortFloats(<< >>, values)

\* str.lower() of what a person types here.
Lower(raw) ==
    LET lower == "B" :> "b" @@ "#FF0000" :> "#ff0000" @@ ".CUBE" :> ".cube"
    IN  IF raw \in DOMAIN lower THEN lower[raw] ELSE raw

\* str.isdigit() and int() of what a person types here.
DigitValue ==
       "0" :> 0 @@ "1" :> 1 @@ "2" :> 2 @@ "3" :> 3 @@ "6" :> 6 @@ "7" :> 7

\* What a prompt makes of an answer: a value to return, BACK, or the prompt
\* again.
Value(v) == [kind |-> "value", value |-> v]
BACK == [kind |-> "back"]
Again == [kind |-> "again"]

\* Lines 34-49: confirm_with_back, for one line of input.
confirm_with_back(raw, default) ==
    CASE Lower(raw) = "" -> Value(default)
      [] Lower(raw) \in {"y", "yes"} -> Value(TRUE)
      [] Lower(raw) \in {"n", "no"} -> Value(FALSE)
      [] Lower(raw) \in {"b", "back"} -> BACK
      [] OTHER -> Again

\* Lines 537-545: numbered_choice, for one line of input.
numbered_choice(raw, options, allow_back) ==
    IF allow_back /\ raw = "0" THEN BACK
    ELSE IF raw \in DOMAIN DigitValue /\ 1 <= DigitValue[raw]
              /\ DigitValue[raw] <= Len(options)
      THEN Value(options[DigitValue[raw]])
    ELSE Again

\* Prompt.ask(..., default = d): the default for an empty line.
Ask(raw, default) == IF raw = "" THEN default ELSE raw

(* ------------------------------ presets.py ---------------------------- *)

\* A Tailwind colour, standing for the hex string oklch_to_hex gives it,
\* and a hex string a person typed.
Tailwind(family, shade) == <<"tailwind", family, shade>>
HexTyped(raw) == <<"hex", raw, "">>

\* _STOP_THRESHOLDS and _FALLBACK, thresholds in 1/1000 stop.
STOP_THRESHOLDS ==
    << <<0 - 3000, "violet", "800">>, <<0 - 2000, "blue", "600">>,
       <<0 - 1000, "sky", "400">>, <<0 - 300, "teal", "400">>,
       <<300, "green", "500">>, <<1000, "lime", "400">>,
       <<2000, "yellow", "400">>, <<3000, "orange", "500">> >>

\* _IRE_THRESHOLDS and _IRE_FALLBACK, thresholds in 1/1000 IRE.
IRE_THRESHOLDS ==
    << <<10000, "violet", "800">>, <<25000, "blue", "600">>,
       <<35000, "sky", "400">>, <<38000, "teal", "400">>,
       <<46000, "green", "500">>, <<55000, "lime", "400">>,
       <<65000, "yellow", "400">>, <<80000, "orange", "500">> >>

\* The first threshold the value is <= to, else the fallback red-600.
SuggestFrom(thresholds, x) ==
    LET hits == {k \in 1..Len(thresholds) :
                   ~x.nan /\ x.v <= thresholds[k][1]}
    IN  IF hits = {} THEN Tailwind("red", "600")
        ELSE LET k == CHOOSE k \in hits : \A j \in hits : k <= j
             IN  Tailwind(thresholds[k][2], thresholds[k][3])

suggest_color_for_stop(stop) == SuggestFrom(STOP_THRESHOLDS, stop)
suggest_color_for_ire(ire) == SuggestFrom(IRE_THRESHOLDS, ire)

(* -------------------- cli.py: the person at the prompt ----------------- *)

\* The variables of generate_lut and of the helpers of data.py, which no
\* prompt touches.
engine ==
    <<samples, band_values, final_data, black_mask, white_mask, comments,
      file, err, registry, now, prev, arg>>

\* At a prompt of some kind the person types any line of user.pool for
\* that kind.  One who tires (user.tires) asks
\* to go back at most user.backs times more and mistypes at most user.slips
\* times more; one who does not may do either for ever.
Permits(kind) ==
    CASE kind = "back" -> ~user.tires \/ user.backs > 0
      [] kind = "again" -> ~user.tires \/ user.slips > 0
      [] OTHER -> TRUE

Spend(kind) ==
    IF ~user.tires THEN user
    ELSE CASE kind = "back" -> [user EXCEPT !.backs = @ - 1]
           [] kind = "again" -> [user EXCEPT !.slips = @ - 1]
           [] OTHER -> user

\* The prompt is shown again: nothing changes but the person's patience.
Reprompt ==
    /\ Permits("again")
    /\ user' = Spend("again")
    /\ UNCHANGED <<pc, cli, ret, req>>

(* ------------------ cli.py: the step loop of build -------------------- *)

\* list(CAMERA_PROFILES.keys()), list(TARGET_PROFILES.keys()) and the
\* options of step_cube and step_band_mode, in the order shown.
CameraOptions ==
    <<"Sony S-Log3", "Panasonic V-Log", "Canon Log 3", "ARRI LogC3",
      "RED Log3G10">>
TargetOptions == <<"Rec.709", "Rec.2020">>
CubeOptions == <<"17", "33", "65 (Recommended)">>
BandModeOptions ==
    <<"Stops (relative to 18% middle grey)",
      "IRE (target display signal level 0-100)">>

\* Lines 841-852: the steps, and the prompt each one starts with.
steps ==
    <<"step_profile", "step_target", "step_cube", "step_band_mode",
      "ask_add", "step_black_clip", "step_white_clip", "step_mono",
      "step_legal", "step_output">>

\* {**state, key: value}
With(state, key, value) == (key :> value) @@ state

\* step_bands calls collect_false_color_bands(state["band_mode"]); its
\* locals at its start (lines 263-267).
EnterBands(c) ==
    [c EXCEPT !.band_mode = c.state.band_mode, !.sorted_values = << >>,
              !.bands = << >>, !.bi = 0, !.current_color = << >>]

\* pick_color and tailwind_color_picker have returned: their locals are
\* gone.
Leave(c) == [c EXCEPT !.caller = "", !.default_hex = << >>, !.family = ""]

\* Mutant: BACK shows the same step again.
AfterBack_stays(i) == i

\* Line 859: i = max(0, i - 1)
AfterBack(i) == Max(0, i - 1)

\* Mutant: a value shows the same step again.
AfterValue_stays(i) == i

\* Line 862: i += 1
AfterValue(i) == i + 1

\* Lines 857-862, once steps[i](state) has returned: BACK steps back, a
\* dict replaces the state and steps on; the loop ends at i = len(steps).
\* In a call of collect_false_color_bands alone the result goes to the
\* caller.
StepReturns(result) ==
    IF cli.command = "build"
      THEN LET j == IF result.kind = "back" THEN AfterBack(cli.i)
                     ELSE AfterValue(cli.i)
               c == [Leave(cli) EXCEPT
                       !.i = j,
                       !.state = IF result.kind = "back" THEN @
                                 ELSE result.value]
           IN  /\ cli' = IF j < Len(steps) /\ steps[j + 1] = "ask_add"
                           THEN EnterBands(c) ELSE c
               /\ pc' = IF j < Len(steps) THEN steps[j + 1] ELSE "generate"
               /\ UNCHANGED <<ret, req>>
      ELSE /\ ret' = result
           /\ pc' = "returned"
           /\ cli' = Leave(cli)
           /\ req' = req

\* What step_bands returns for what collect_false_color_bands returns.
BandsReturn(result) ==
    IF result.kind = "back" \/ cli.command # "build" THEN StepReturns(result)
    ELSE StepReturns(Value(With(cli.state, "bands", result.value)))

(* -------------- cli.py: collect_false_color_bands -------------------- *)

\* Lines 271-277: "Add false color exposure band(s)?"
AskAdd ==
    /\ pc = "ask_add"
    /\ \E raw \in user.pool.confirm :
         LET result == confirm_with_back(raw, TRUE)
         IN  CASE result.kind = "again" -> Reprompt
               [] result.kind = "back" ->
                    /\ Permits("back") /\ user' = Spend("back")
                    /\ BandsReturn(BACK)
               [] OTHER ->
                    /\ user' = user
                    /\ IF result.value
                         THEN pc' = "get_values" /\ UNCHANGED <<cli, ret, req>>
                         ELSE BandsReturn(Value(<< >>))
    /\ UNCHANGED engine

\* Lines 280-292: the stop or IRE values.
GetValues ==
    /\ pc = "get_values"
    /\ \E raw \in user.pool.values :
         LET text == Ask(raw, IF cli.band_mode = "ire" THEN "42" ELSE "0")
             values == parse_values(text)
         IN  IF Lower(text) \in {"b", "back"}
               THEN /\ Permits("back") /\ user' = Spend("back")
                    /\ pc' = "ask_add"
                    /\ UNCHANGED <<cli, ret, req>>
             ELSE IF values = << >> THEN Reprompt
             ELSE /\ user' = user
                  /\ cli' = [cli EXCEPT !.sorted_values = sorted(values),
                                        !.bands = << >>, !.bi = 0]
                  /\ pc' = "band_color"
                  /\ UNCHANGED <<ret, req>>
    /\ UNCHANGED engine

\* Lines 295-312: the head of the band_color step: every value has its
\* band, or the suggestion for band bi is shown.
BandColor ==
    /\ pc = "band_color"
    /\ IF cli.bi >= Len(cli.sorted_values)
         THEN BandsReturn(Value(cli.bands))
         ELSE pc' = "use_color" /\ UNCHANGED <<cli, ret, req>>
    /\ UNCHANGED <<user, engine>>

\* suggest_fn(val) for band bi.
Suggested ==
    IF cli.band_mode = "ire"
      THEN suggest_color_for_ire(cli.sorted_values[cli.bi + 1])
      ELSE suggest_color_for_stop(cli.sorted_values[cli.bi + 1])

\* Lines 316-320: bi == 0 goes to the values; otherwise bi -= 1 and
\* bands.pop(), which raises IndexError on an empty list.
PopBand(c) ==
    IF c.bi = 0 THEN c
    ELSE [c EXCEPT !.bi = @ - 1, !.bands = SubSeq(@, 1, Len(@) - 1)]

\* Lines 314-331: "Use this color?"
UseColor ==
    /\ pc = "use_color"
    /\ \E raw \in user.pool.confirm :
         LET use == confirm_with_back(raw, TRUE)
         IN  CASE use.kind = "again" -> Reprompt
               [] use.kind = "back" ->
                    /\ Permits("back") /\ user' = Spend("back")
                    /\ IF cli.bi # 0 /\ cli.bands = << >>
                         THEN pc' = "error" /\ ret' = "IndexError"
                              /\ UNCHANGED <<cli, req>>
                         ELSE /\ pc' = IF cli.bi = 0 THEN "get_values"
                                       ELSE "band_color"
                              /\ cli' = PopBand(cli)
                              /\ UNCHANGED <<ret, req>>
               [] OTHER ->
                    /\ user' = user
                    /\ IF use.value
                         THEN /\ cli' = [cli EXCEPT
                                           !.current_color = Suggested]
                              /\ pc' = "band_width"
                         ELSE /\ cli' = [cli EXCEPT !.caller = "band_color",
                                                    !.default_hex = Suggested]
                              /\ pc' = "pick_color"
                    /\ UNCHANGED <<ret, req>>
    /\ UNCHANGED engine

\* SHADES (line 28), and the families presets.py takes from
\* TAILWIND_COLORS, a table of colors.py that may hold more.
SHADES ==
    <<"50", "100", "200", "300", "400", "500", "600", "700", "800", "900",
      "950">>
Families ==
    <<"violet", "blue", "sky", "teal", "green", "lime", "yellow", "orange",
      "red">>

\* What the caller of pick_color does with what it returns: the band_color
\* step shows its suggestion again on BACK and goes on to the width with a
\* colour (lines 327-331); step_black_clip and step_white_clip ask their
\* question again on BACK and return the state with the toggle and the
\* colour otherwise (lines 787-790, 808-811).
ColorReturns(result) ==
    IF cli.caller = "band_color"
      THEN /\ pc' = IF result.kind = "back" THEN "band_color"
                    ELSE "band_width"
           /\ cli' = IF result.kind = "back" THEN Leave(cli)
                     ELSE [Leave(cli) EXCEPT !.current_color = result.value]
           /\ UNCHANGED <<ret, req>>
    ELSE IF result.kind = "back"
      THEN pc' = cli.caller /\ cli' = Leave(cli) /\ UNCHANGED <<ret, req>>
    ELSE LET which == IF cli.caller = "step_black_clip" THEN "black"
                      ELSE "white"
         IN  StepReturns(
               Value(With(With(cli.state,
                               IF which = "black" THEN "black_clip"
                               ELSE "white_clip", TRUE),
                          IF which = "black" THEN "black_hex"
                          ELSE "white_hex", result.value)))

\* Lines 168-174: pick_color's "Input method [0-2]".
PickColor ==
    /\ pc = "pick_color"
    /\ \E raw \in user.pool.pick :
         CASE raw = "0" ->
                /\ Permits("back") /\ user' = Spend("back")
                /\ ColorReturns(BACK)
           [] raw = "1" ->
                /\ user' = user /\ pc' = "hex_code"
                /\ UNCHANGED <<cli, ret, req>>
           [] raw = "2" ->
                /\ user' = user /\ pc' = "family"
                /\ UNCHANGED <<cli, ret, req>>
           [] OTHER -> Reprompt
    /\ UNCHANGED engine

\* Lines 176-177: "Hex code", with the suggestion as its default; whatever
\* is typed is the colour.
HexCode ==
    /\ pc = "hex_code"
    /\ \E raw \in user.pool.hex :
         ColorReturns(Value(IF raw = "" THEN cli.default_hex
                            ELSE HexTyped(raw)))
    /\ UNCHANGED <<user, engine>>

\* Lines 116-121: tailwind_color_picker's "Family".
Family ==
    /\ pc = "family"
    /\ \E raw \in user.pool.family :
         IF raw \in DOMAIN DigitValue /\ 1 <= DigitValue[raw]
              /\ DigitValue[raw] <= Len(Families)
           THEN /\ user' = user
                /\ cli' = [cli EXCEPT !.family = Families[DigitValue[raw]]]
                /\ pc' = "shade"
                /\ UNCHANGED <<ret, req>>
           ELSE Reprompt
    /\ UNCHANGED engine

\* Lines 136-155: tailwind_color_picker's "Shade", default 500.
Shade ==
    /\ pc = "shade"
    /\ \E raw \in user.pool.shade :
         LET text == Ask(raw, "500")
         IN  IF \E k \in 1..Len(SHADES) : SHADES[k] = text
               THEN /\ user' = user
                    /\ ColorReturns(Value(Tailwind(cli.family, text)))
               ELSE Reprompt
    /\ UNCHANGED engine

\* Mutant: the custom width may be zero.
AcceptsWidth_zero(w) == ~w.nan /\ w.v >= 0

\* Line 233: w > 0
AcceptsWidth(w) == FloatLess(Float(0), w)

\* Lines 344-353: the band of value bi is appended and the next one is up.
AppendBand(width) ==
    /\ cli' = [cli EXCEPT
                 !.bands = Append(@, [stop |-> cli.sorted_values[cli.bi + 1],
                                      color |-> cli.current_color,
                                      width |-> width]),
                 !.bi = @ + 1]
    /\ pc' = "band_color"
    /\ UNCHANGED <<ret, req>>

\* Lines 204-227, 238-239 and 339-342: pick_width's menu.  0 is BACK, which
\* returns to the colour of the same band; a preset gives its width; the
\* last entry asks for a custom one.
BandWidth ==
    /\ pc = "band_width"
    /\ \E raw \in user.pool.menu :
         LET presets == IF cli.band_mode = "ire" THEN IRE_WIDTH_PRESETS
                        ELSE WIDTH_PRESETS
         IN  IF raw = "0"
               THEN /\ Permits("back") /\ user' = Spend("back")
                    /\ pc' = "band_color"
                    /\ UNCHANGED <<cli, ret, req>>
             ELSE IF raw \in DOMAIN DigitValue /\ 1 <= DigitValue[raw]
                       /\ DigitValue[raw] <= Len(presets)
               THEN /\ user' = user
                    /\ IF presets[DigitValue[raw]].width # << >>
                         THEN AppendBand(
                                Float(presets[DigitValue[raw]].width[1]))
                         ELSE pc' = "custom_width"
                              /\ UNCHANGED <<cli, ret, req>>
             ELSE Reprompt
    /\ UNCHANGED engine

\* Lines 229-237: pick_width's custom entry, asked until it is a number
\* greater than 0.
CustomWidth ==
    /\ pc = "custom_width"
    /\ \E raw \in user.pool.width :
         LET w == float(raw)
         IN  IF w # << >> /\ AcceptsWidth(w[1])
               THEN user' = user /\ AppendBand(w[1])
               ELSE Reprompt
    /\ UNCHANGED engine

\* A call collect_false_color_bands(band_mode) on its own.
BandsCall(band_mode) ==
    [command |-> "collect_false_color_bands", band_mode |-> band_mode,
     sorted_values |-> << >>, bands |-> << >>, bi |-> 0,
     current_color |-> << >>, caller |-> "", default_hex |-> << >>,
     family |-> "", i |-> 0, state |-> << >>, output_dir |-> << >>,
     cfg |-> << >>]

\* What a person may type at the prompts of collect_false_color_bands: at
\* the yes/no questions, at the menus of a step of build (none here), of
\* the input method, of the family and of the width, for the values, for a
\* hex code, for a shade, for a custom width and for a file name.
BandsPool ==
    [confirm |-> {"", "y", "n", "b", "B", "x"},
     choice |-> {},
     pick |-> {"", "0", "1", "2", "6", "x"},
     family |-> {"", "0", "1", "2", "7", "x"},
     menu |-> {"", "0", "1", "2", "6", "7", "x"},
     values |-> {"", "b", "x", "-1, 1", "1, nan, 0", "x, 2", "2, 2"},
     hex |-> {"", "#FF0000"},
     shade |-> {"", "x"},
     width |-> {"", "0", "-2", "x", "nan", "0.15"},
     output |-> {""}]

\* A person who does not tire.
Anyone(pool) == [tires |-> FALSE, backs |-> 0, slips |-> 0, pool |-> pool]

InitBands ==
    /\ req = << >>
    /\ samples = << >>
    /\ band_values = << >>
    /\ final_data = << >>
    /\ black_mask = {}
    /\ white_mask = {}
    /\ comments = NoComments
    /\ file = NoFile
    /\ err = ""
    /\ now = 0
    /\ prev = NoFile
    /\ registry = Shipped
    /\ arg = << >>
    /\ ret = << >>
    /\ pc = "ask_add"
    /\ \E band_mode \in {"stops", "ire"} : cli = BandsCall(band_mode)
    /\ user = Anyone(BandsPool)


NextBands ==
    \/ AskAdd
    \/ GetValues
    \/ BandColor
    \/ UseColor
    \/ PickColor
    \/ HexCode
    \/ Family
    \/ Shade
    \/ BandWidth
    \/ CustomWidth

SpecBands == InitBands /\ [][NextBands]_vars

(* --------------------- cli.py: the steps of build --------------------- *)

\* A path: its parent directories, the stem of its name and its suffix.
Path(parent, stem, suffix) ==
    [parent |-> parent, stem |-> stem, suffix |-> suffix]

\* Path(raw) for what a person types as a file name.
PathOf(raw) ==
    CASE raw = "luts/out.CUBE" -> Path(<<"luts">>, <<"out">>, ".CUBE")
      [] raw = "out.cube" -> Path(<< >>, <<"out">>, ".cube")
      [] raw = "out.txt" -> Path(<< >>, <<"out">>, ".txt")
      [] raw = "0.15" -> Path(<< >>, <<"0">>, ".15")
      [] OTHER -> Path(<< >>, <<raw>>, "")

\* profile_name.replace(" ", "") and target_name.replace(".", "")
Replaced ==
       "Sony S-Log3" :> "SonyS-Log3" @@ "Panasonic V-Log" :> "PanasonicV-Log"
    @@ "Canon Log 3" :> "CanonLog3" @@ "ARRI LogC3" :> "ARRILogC3"
    @@ "RED Log3G10" :> "REDLog3G10"
    @@ "Rec.709" :> "Rec709" @@ "Rec.2020" :> "Rec2020"

\* Mutant: the directory of the name is kept under --output-dir.
resolve_output_nested(p, output_dir) ==
    LET q == IF Lower(p.suffix) # ".cube" THEN [p EXCEPT !.suffix = ".cube"]
             ELSE p
    IN  IF output_dir # << >>
          THEN [q EXCEPT !.parent = output_dir[1] \o q.parent]
          ELSE q

\* Lines 642-650: the .cube suffix unless the name has it in any case, and
\* the name alone under --output-dir when that is given.
resolve_output(p, output_dir) ==
    LET q == IF Lower(p.suffix) # ".cube" THEN [p EXCEPT !.suffix = ".cube"]
             ELSE p
    IN  IF output_dir # << >> THEN [q EXCEPT !.parent = output_dir[1]]
        ELSE q

\* Lines 722-727: step_profile, a menu without BACK.
StepProfile ==
    /\ pc = "step_profile"
    /\ \E raw \in user.pool.choice :
         LET result == numbered_choice(raw, CameraOptions, FALSE)
         IN  CASE result.kind = "again" -> Reprompt
               [] result.kind = "back" ->
                    /\ Permits("back") /\ user' = Spend("back")
                    /\ StepReturns(BACK)
               [] OTHER ->
                    /\ user' = user
                    /\ StepReturns(Value(With(cli.state, "profile_name",
                                              result.value)))
    /\ UNCHANGED engine

\* Lines 729-734: step_target.
StepTarget ==
    /\ pc = "step_target"
    /\ \E raw \in user.pool.choice :
         LET result == numbered_choice(raw, TargetOptions, TRUE)
         IN  CASE result.kind = "again" -> Reprompt
               [] result.kind = "back" ->
                    /\ Permits("back") /\ user' = Spend("back")
                    /\ StepReturns(BACK)
               [] OTHER ->
                    /\ user' = user
                    /\ StepReturns(Value(With(cli.state, "target_name",
                                              result.value)))
    /\ UNCHANGED engine

\* Lines 736-747: step_cube.
StepCube ==
    /\ pc = "step_cube"
    /\ \E raw \in user.pool.choice :
         LET result == numbered_choice(raw, CubeOptions, TRUE)
             \* int(result.split()[0])
             size == "17" :> 17 @@ "33" :> 33 @@ "65 (Recommended)" :> 65
         IN  CASE result.kind = "again" -> Reprompt
               [] result.kind = "back" ->
                    /\ Permits("back") /\ user' = Spend("back")
                    /\ StepReturns(BACK)
               [] OTHER ->
                    /\ user' = user
                    /\ StepReturns(Value(With(cli.state, "cube_size",
                                              size[result.value])))
    /\ UNCHANGED engine

\* Lines 749-761: step_band_mode.
StepBandMode ==
    /\ pc = "step_band_mode"
    /\ \E raw \in user.pool.choice :
         LET result == numbered_choice(raw, BandModeOptions, TRUE)
         IN  CASE result.kind = "again" -> Reprompt
               [] result.kind = "back" ->
                    /\ Permits("back") /\ user' = Spend("back")
                    /\ StepReturns(BACK)
               [] OTHER ->
                    /\ user' = user
                    /\ StepReturns(
                         Value(With(cli.state, "band_mode",
                                    IF result.value = BandModeOptions[2]
                                      THEN "ire" ELSE "stops")))
    /\ UNCHANGED engine

\* Lines 773-777 and 794-798: "Highlight crushed blacks?" and "Highlight
\* clipped whites?".
ClipAsk(which) ==
    /\ pc = "step_" \o which \o "_clip"
    /\ \E raw \in user.pool.confirm :
         LET result == confirm_with_back(raw, TRUE)
         IN  CASE result.kind = "again" -> Reprompt
               [] result.kind = "back" ->
                    /\ Permits("back") /\ user' = Spend("back")
                    /\ StepReturns(BACK)
               [] OTHER ->
                    /\ user' = user
                    /\ IF result.value
                         THEN pc' = which \o "_use"
                              /\ UNCHANGED <<cli, ret, req>>
                         ELSE StepReturns(
                                Value(With(With(cli.state,
                                                which \o "_clip", FALSE),
                                           which \o "_hex", HexTyped(""))))
    /\ UNCHANGED engine

\* Lines 778-790 and 799-811: the suggestion for the indicator, and "Use
\* this color?".  BACK asks the indicator's question again.
ClipUse(which) ==
    /\ pc = which \o "_use"
    /\ \E raw \in user.pool.confirm :
         LET use == confirm_with_back(raw, TRUE)
             suggested == suggest_color_for_stop(
                            Float(IF which = "black" THEN 0 - 99000
                                  ELSE 99000))
         IN  CASE use.kind = "again" -> Reprompt
               [] use.kind = "back" ->
                    /\ Permits("back") /\ user' = Spend("back")
                    /\ pc' = "step_" \o which \o "_clip"
                    /\ UNCHANGED <<cli, ret, req>>
               [] OTHER ->
                    /\ user' = user
                    /\ IF use.value
                         THEN StepReturns(
                                Value(With(With(cli.state,
                                                which \o "_clip", TRUE),
                                           which \o "_hex", suggested)))
                         ELSE /\ cli' = [cli EXCEPT
                                           !.caller =
                                             "step_" \o which \o "_clip",
                                           !.default_hex = suggested]
                              /\ pc' = "pick_color"
                              /\ UNCHANGED <<ret, req>>
    /\ UNCHANGED engine

\* Lines 813-820: step_mono, default yes.
StepMono ==
    /\ pc = "step_mono"
    /\ \E raw \in user.pool.confirm :
         LET result == confirm_with_back(raw, TRUE)
         IN  CASE result.kind = "again" -> Reprompt
               [] result.kind = "back" ->
                    /\ Permits("back") /\ user' = Spend("back")
                    /\ StepReturns(BACK)
               [] OTHER ->
                    /\ user' = user
                    /\ StepReturns(Value(With(cli.state, "monochrome",
                                              result.value)))
    /\ UNCHANGED engine

\* Lines 822-830: step_legal, default no.
StepLegal ==
    /\ pc = "step_legal"
    /\ \E raw \in user.pool.confirm :
         LET result == confirm_with_back(raw, FALSE)
         IN  CASE result.kind = "again" -> Reprompt
               [] result.kind = "back" ->
                    /\ Permits("back") /\ user' = Spend("back")
                    /\ StepReturns(BACK)
               [] OTHER ->
                    /\ user' = user
                    /\ StepReturns(Value(With(cli.state, "legal_range",
                                              result.value)))
    /\ UNCHANGED engine

\* Lines 832-839: step_output; the default name is made of the camera and
\* the target.
StepOutput ==
    /\ pc = "step_output"
    /\ \E raw \in user.pool.output :
         LET default_name ==
               Path(<< >>, <<Replaced[cli.state.profile_name], "_",
                             Replaced[cli.state.target_name]>>, ".cube")
         IN  IF raw # "" /\ Lower(raw) \in {"b", "back"}
               THEN /\ Permits("back") /\ user' = Spend("back")
                    /\ StepReturns(BACK)
               ELSE /\ user' = user
                    /\ StepReturns(
                         Value(With(cli.state, "output_filename",
                                    resolve_output(
                                      IF raw = "" THEN default_name
                                      ELSE PathOf(raw), cli.output_dir))))
    /\ UNCHANGED engine

\* The twelve arguments of generate_lut, from a dict that has them.
Arguments(d) ==
    [profile_name |-> d.profile_name, target_name |-> d.target_name,
     cube_size |-> d.cube_size, bands |-> d.bands,
     band_mode |-> d.band_mode, black_clip |-> d.black_clip,
     black_hex |-> d.black_hex, white_clip |-> d.white_clip,
     white_hex |-> d.white_hex, monochrome |-> d.monochrome,
     legal_range |-> d.legal_range, output_filename |-> d.output_filename]

\* Lines 864-898: past the loop, the state is read and generate_lut is
\* called.
Generate ==
    /\ pc = "generate"
    /\ req' = Arguments(cli.state)
    /\ pc' = "called"
    /\ UNCHANGED <<cli, ret, user, engine>>

\* A call of build without --config: line 854-855.
BuildCall(output_dir) ==
    [command |-> "build", band_mode |-> "", sorted_values |-> << >>,
     bands |-> << >>, bi |-> 0, current_color |-> << >>, caller |-> "",
     default_hex |-> << >>, family |-> "", i |-> 0, state |-> << >>,
     output_dir |-> output_dir, cfg |-> << >>]

NextBuild ==
    \/ StepProfile
    \/ StepTarget
    \/ StepCube
    \/ StepBandMode
    \/ NextBands
    \/ ClipAsk("black")
    \/ ClipUse("black")
    \/ ClipAsk("white")
    \/ ClipUse("white")
    \/ StepMono
    \/ StepLegal
    \/ StepOutput
    \/ Generate

\* What a person may type at the prompts of build.
WizardPool ==
    [confirm |-> {"", "n", "b", "x"},
     choice |-> {"0", "1", "2", "x"},
     pick |-> {"0", "1", "2"},
     family |-> {"1"},
     menu |-> {"0", "1", "6"},
     values |-> {"", "b", "x"},
     hex |-> {""},
     shade |-> {""},
     width |-> {"0", "nan", "0.15"},
     output |-> {"", "B"}]

\* What a person of few words may type.
TiredPool ==
    [confirm |-> {"", "n", "b", "x"},
     choice |-> {"0", "1"},
     pick |-> {"0", "1", "2"},
     family |-> {"1"},
     menu |-> {"0", "6"},
     values |-> {"", "b", "x"},
     hex |-> {""},
     shade |-> {""},
     width |-> {"0", "0.15"},
     output |-> {"", "B"}]

\* How often a person who tires may still go back, and mistype.
MaxBacks == 2
MaxSlips == 1

Tiring(pool) ==
    [tires |-> TRUE, backs |-> MaxBacks, slips |-> MaxSlips, pool |-> pool]

\* The directories given as --output-dir: none, or one.
OutputDirs == {<< >>, << <<"luts">> >>}

\* build is started without --config, with or without --output-dir, by
\* some person.
InitBuild(people, dirs) ==
    /\ req = << >>
    /\ samples = << >>
    /\ band_values = << >>
    /\ final_data = << >>
    /\ black_mask = {}
    /\ white_mask = {}
    /\ comments = NoComments
    /\ file = NoFile
    /\ err = ""
    /\ now = 0
    /\ prev = NoFile
    /\ registry = Shipped
    /\ arg = << >>
    /\ ret = << >>
    /\ pc = "step_profile"
    /\ \E output_dir \in dirs : cli = BuildCall(output_dir)
    /\ user \in people

SpecWizard ==
    /\ InitBuild({Anyone(WizardPool), Tiring(TiredPool)}, {<< >>})
    /\ [][NextBuild]_vars

\* The person answers every prompt, and tires of going back and of
\* mistyping: the process waits at a prompt and runs on when it is answered.
SpecWizardLive ==
    /\ InitBuild({Tiring(TiredPool)}, OutputDirs)
    /\ [][NextBuild]_vars
    /\ WF_vars(NextBuild)

(* ------------------- cli.py: the config file of build ---------------- *)

\* Lines 491-518: config_from_session, for its arguments by position:
\* profile_name, target_name, cube_size, bands, band_mode, black_clip,
\* black_hex, white_clip, white_hex, monochrome, output_filename,
\* legal_range.
config_from_session(args) ==
    LET profile_name == args[1]
        target_name == args[2]
        cube_size == args[3]
        bands == args[4]
        band_mode == args[5]
        black_clip == args[6]
        black_hex == args[7]
        white_clip == args[8]
        white_hex == args[9]
        monochrome == args[10]
        output_filename == args[11]
        legal_range == args[12]
    IN  [profile |-> profile_name, target |-> target_name,
         cube_size |-> cube_size, bands |-> bands, band_mode |-> band_mode,
         black_clip |-> black_clip, black_hex |-> black_hex,
         white_clip |-> white_clip, white_hex |-> white_hex,
         monochrome |-> monochrome, legal_range |-> legal_range,
         output |-> output_filename]

\* Line 487: json.dump(cfg, f, indent=2) for the dict of
\* config_from_session: what it writes for a str, a bool, an int, a float
\* (with a fraction or an exponent, or as NaN), a band and the list of the
\* bands, in their order.
json_dump(cfg) ==
    LET str(s) == [json |-> "string", text |-> s]
        bool(b) == [json |-> IF b THEN "true" ELSE "false"]
        int(n) == [json |-> "number", int |-> TRUE, v |-> n]
        number(f) == IF f.nan THEN [json |-> "NaN"]
                     ELSE [json |-> "number", int |-> FALSE, v |-> f.v]
        dict(band) ==
          [json |-> "object",
           members |-> [stop |-> number(band.stop),
                        color |-> str(band.color),
                        width |-> number(band.width)]]
        list(bands) ==
          [json |-> "array",
           items |-> [k \in 1..Len(bands) |-> dict(bands[k])]]
    IN  [json |-> "object",
         members |-> [profile |-> str(cfg.profile),
                      target |-> str(cfg.target),
                      cube_size |-> int(cfg.cube_size),
                      bands |-> list(cfg.bands),
                      band_mode |-> str(cfg.band_mode),
                      black_clip |-> bool(cfg.black_clip),
                      black_hex |-> str(cfg.black_hex),
                      white_clip |-> bool(cfg.white_clip),
                      white_hex |-> str(cfg.white_hex),
                      monochrome |-> bool(cfg.monochrome),
                      legal_range |-> bool(cfg.legal_range),
                      output |-> str(cfg.output)]]

\* Line 481: json.load, which reads each token for what it is: a number
\* without fraction or exponent is an int, any other a float.
RECURSIVE json_load(_)
json_load(j) ==
    CASE j.json = "string" -> j.text
      [] j.json = "true" -> TRUE
      [] j.json = "false" -> FALSE
      [] j.json = "NaN" -> NaN
      [] j.json = "number" -> IF j.int THEN j.v ELSE Float(j.v)
      [] j.json = "array" ->
           [k \in DOMAIN j.items |-> json_load(j.items[k])]
      [] j.json = "object" ->
           [key \in DOMAIN j.members |-> json_load(j.members[key])]

\* cfg.get(key, default)
Get(cfg, key, default) == IF key \in DOMAIN cfg THEN cfg[key] ELSE default

\* Lines 659-672: the arguments the --config path makes of the dict.
FromConfig(cfg, output_dir) ==
    [profile_name |-> cfg["profile"],
     target_name |-> cfg["target"],
     cube_size |-> cfg["cube_size"],
     bands |-> Get(cfg, "bands", << >>),
     band_mode |-> Get(cfg, "band_mode", "stops"),
     black_clip |-> Get(cfg, "black_clip", FALSE),
     black_hex |-> Get(cfg, "black_hex", HexTyped("")),
     white_clip |-> Get(cfg, "white_clip", FALSE),
     white_hex |-> Get(cfg, "white_hex", HexTyped("")),
     monochrome |-> Get(cfg, "monochrome", FALSE),
     legal_range |-> Get(cfg, "legal_range", FALSE),
     output_filename |->
       resolve_output(
         Get(cfg, "output",
             Path(<< >>, <<Replaced[cfg["profile"]], "_Custom">>, ".cube")),
         output_dir)]

\* Lines 883-903 and 691-712: generate_lut returns, or raises and build
\* exits with status 1; the --config path ends after it, the wizard goes on
\* to offer the config.
Generated ==
    /\ pc = "called"
    /\ \/ pc' = "exit"
       \/ pc' = IF cli.command = "build" THEN "save_ask" ELSE "end"
    /\ UNCHANGED <<cli, ret, req, user, engine>>

\* Line 907: Confirm.ask without a default takes y or n.
SaveAsk ==
    /\ pc = "save_ask"
    /\ \E raw \in user.pool.confirm :
         CASE Lower(raw) = "y" ->
                user' = user /\ pc' = "save_name"
                /\ UNCHANGED <<cli, ret, req>>
           [] Lower(raw) = "n" ->
                user' = user /\ pc' = "end" /\ UNCHANGED <<cli, ret, req>>
           [] OTHER -> Reprompt
    /\ UNCHANGED engine

\* Lines 908-926: the config goes to the file named, by default the stem of
\* the output file with .json.
SaveName ==
    /\ pc = "save_name"
    /\ \E raw \in user.pool.output :
         LET output_filename == cli.state.output_filename
             default_cfg_name ==
               Path(<< >>, output_filename.stem, ".json")
             cfg_path == IF raw = "" THEN default_cfg_name ELSE PathOf(raw)
         IN  file' = [exists |-> TRUE, path |-> cfg_path,
                      text |-> json_dump(
                        config_from_session(
                          <<cli.state.profile_name, cli.state.target_name,
                            cli.state.cube_size, cli.state.bands,
                            cli.state.band_mode, cli.state.black_clip,
                            cli.state.black_hex, cli.state.white_clip,
                            cli.state.white_hex, cli.state.monochrome,
                            output_filename, cli.state.legal_range>>))]
    /\ pc' = "end"
    /\ UNCHANGED <<samples, band_values, final_data, black_mask, white_mask,
                   comments, err, registry, now, prev, arg, ret, req, cli,
                   user>>

\* build is run again with --config on the file saved and with some
\* --output-dir: lines 657-706, up to the call of generate_lut.
Replay ==
    /\ pc = "end"
    /\ cli.command = "build"
    /\ file.exists
    /\ prev' = [exists |-> TRUE, req |-> req, output_dir |-> cli.output_dir]
    /\ \E output_dir \in OutputDirs :
         LET cfg == json_load(file.text)
         IN  /\ cli' = [BuildCall(output_dir) EXCEPT
                          !.command = "build --config", !.cfg = cfg]
             /\ req' = FromConfig(cfg, output_dir)
    /\ pc' = "called"
    /\ UNCHANGED <<samples, band_values, final_data, black_mask, white_mask,
                   comments, file, err, registry, now, arg, ret, user>>

\* What a person may type in a session that ends with a config.
ConfigPool ==
    [confirm |-> {"", "y", "n", "x"},
     choice |-> {"1"},
     pick |-> {"1", "2"},
     family |-> {"1"},
     menu |-> {"6"},
     values |-> {"-1, 1"},
     hex |-> {"#FF0000"},
     shade |-> {""},
     width |-> {"0.15"},
     output |-> {"", "luts/out.CUBE", "out.txt"}]

NextConfig ==
    \/ NextBuild
    \/ Generated
    \/ SaveAsk
    \/ SaveName
    \/ Replay

SpecConfig ==
    InitBuild({Anyone(ConfigPool)}, OutputDirs) /\ [][NextConfig]_vars

(* ----------------------------- properties ----------------------------- *)

\* What the properties read of a state, stated on the grid indices of a
\* sample and on exact fractions, apart from the operators of the model.

CubeSize == req.cube_size

\* The index, in 0..N-1, of row s on axis c.
AxisIndex(s, c) ==
    CASE c = 1 -> s \div (CubeSize * CubeSize)
      [] c = 2 -> (s \div CubeSize) % CubeSize
      [] c = 3 -> s % CubeSize

MinIndex(s) == Min(AxisIndex(s, 1), Min(AxisIndex(s, 2), AxisIndex(s, 3)))
MaxIndex(s) == Max(AxisIndex(s, 1), Max(AxisIndex(s, 2), AxisIndex(s, 3)))

\* min/(N-1) <= floor + (1/(N-1))/2, both sides times 2(N-1).
AtFloor(s, log_floor) ==
    2 * MinIndex(s) * GridOne <= 2 * (CubeSize - 1) * log_floor + GridOne

\* max/(N-1) >= ceiling - (1/(N-1))/2, both sides times 2(N-1).
AtCeiling(s, log_ceiling) ==
    2 * MaxIndex(s) * GridOne >= 2 * (CubeSize - 1) * log_ceiling - GridOne

BlackOn == req.black_clip /\ req.black_hex # Empty
WhiteOn == req.white_clip /\ req.white_hex # Empty

BlackClipped(s) ==
    BlackOn /\ AtFloor(s, CAMERA_PROFILES[req.profile_name].log_floor)

WhiteClipped(s) ==
    WhiteOn /\ AtCeiling(s, CAMERA_PROFILES[req.profile_name].log_ceiling)

InBand(s, band) ==
    /\ band.stop - band.width <= band_values[s]
    /\ band_values[s] <= band.stop + band.width

Banded(s) == \E i \in 1..Len(req.bands) : InBand(s, req.bands[i])

\* The last band of the list that holds s.
LastBand(s) ==
    CHOOSE i \in 1..Len(req.bands) :
      /\ InBand(s, req.bands[i])
      /\ \A j \in (i + 1)..Len(req.bands) : ~InBand(s, req.bands[j])

\* The colours of the requests, as RGB in 1/One.
RGBOf(color) ==
    CASE color = Magenta -> <<One, 0, One>>
      [] color = Red -> <<One, 0, 0>>
      [] color = Green -> <<0, One, 0>>
      [] color = Blue -> <<0, 0, One>>

\* The legal-range equivalent of a colour whose channels are 0 or 1.
LegalOf(rgb) ==
    [c \in 1..3 |-> IF rgb[c] = One THEN 940 * Res ELSE 64 * Res]

Written(rgb) == IF req.legal_range THEN LegalOf(rgb) ELSE rgb

\* The clip colours that apply to sample s.
ClipColours(s) ==
    {RGBOf(req.black_hex) : x \in {1} \cap {IF BlackClipped(s) THEN 1 ELSE 0}}
      \cup
    {RGBOf(req.white_hex) : x \in {1} \cap {IF WhiteClipped(s) THEN 1 ELSE 0}}

\* C1: every channel of every entry of the written table lies in [0, 1],
\* and the table has N^3 entries.
C1_OutputInUnitRange ==
    pc = "done" =>
      /\ file.exists
      /\ DOMAIN file.table = 0..(CubeSize * CubeSize * CubeSize - 1)
      /\ \A s \in DOMAIN file.table : \A c \in 1..3 :
           0 <= file.table[s][c] /\ file.table[s][c] <= One

\* A written table whose display values were above 1 and below 0 before
\* the clamp.
C1_Witness ==
    /\ pc = "done"
    /\ \E s \in DOMAIN final_data : \E c \in 1..3 : final_data[s][c] > One
    /\ \E s \in DOMAIN final_data : \E c \in 1..3 : final_data[s][c] < 0

\* C2: after the band step a banded sample carries the colour of the last
\* band, in the caller's order, whose range holds its metric.
C2_BandLastWins ==
    pc = "black" =>
      \A s \in DOMAIN final_data :
        Banded(s) => final_data[s] = RGBOf(req.bands[LastBand(s)].color)

\* Band B then band A, and a sample in both that carries A's colour.
C2_Witness ==
    /\ pc = "black"
    /\ req.bands = <<BandB, BandA>>
    /\ \E s \in DOMAIN final_data :
         /\ InBand(s, BandA) /\ InBand(s, BandB)
         /\ final_data[s] = RGBOf(BandA.color)

\* C3: once all overlays are applied, a sample that lies in a band's range
\* and meets an enabled clip condition carries a clip colour, wherever the
\* band stands in the list.
C3_ClipOverridesBand ==
    pc = "legal" =>
      \A s \in DOMAIN final_data :
        (Banded(s) /\ ClipColours(s) # {}) => final_data[s] \in ClipColours(s)

\* A sample in both bands of a two-band list and black-clipped.
C3_Witness ==
    /\ pc = "legal"
    /\ Len(req.bands) = 2
    /\ \E s \in DOMAIN final_data :
         /\ InBand(s, req.bands[1]) /\ InBand(s, req.bands[2])
         /\ BlackClipped(s) /\ ~WhiteClipped(s)
         /\ final_data[s] = RGBOf(req.black_hex)

\* The samples C4 is about: Sony S-Log3 (log floor 0.035), black clip on
\* with #FF00FF.
C4_Request ==
    /\ req.profile_name = "Sony S-Log3"
    /\ req.black_clip
    /\ req.black_hex = Magenta

\* C4 as claimed: with every other field arbitrary, each sample whose
\* minimum channel is <= 0.035 + tolerance is written as (1, 0, 1).
C4_Original ==
    (pc = "done" /\ C4_Request) =>
      \A s \in DOMAIN file.table :
        AtFloor(s, 4200) => file.table[s] = <<One, 0, One>>

\* C4 amended: each such sample that the white-clip indicator does not
\* paint is written as (1, 0, 1), or as its legal-range equivalent
\* (940/1023, 64/1023, 940/1023) when legal_range is requested.
C4_BlackClipMagenta ==
    (pc = "done" /\ C4_Request) =>
      \A s \in DOMAIN file.table :
        (AtFloor(s, 4200) /\ ~WhiteClipped(s)) =>
          file.table[s] = IF req.legal_range
                            THEN <<940 * Res, 64 * Res, 940 * Res>>
                            ELSE <<One, 0, One>>

\* A banded sample at the floor, written magenta.
C4_Witness ==
    /\ pc = "done"
    /\ C4_Request
    /\ ~req.legal_range
    /\ \E s \in DOMAIN file.table :
         /\ AtFloor(s, 4200) /\ MinIndex(s) = 0 /\ Banded(s)
         /\ file.table[s] = <<One, 0, One>>

\* C5: the white-clip step paints a sample with the white colour if and
\* only if its maximum channel is >= ceiling - (1/(N-1))/2; every other
\* sample keeps its value.
C5_WhiteClipExact ==
    [][(pc = "white" /\ WhiteOn /\ pc' # "error") =>
         \A s \in DOMAIN samples :
           IF AtCeiling(s, CAMERA_PROFILES[req.profile_name].log_ceiling)
             THEN final_data'[s] = RGBOf(req.white_hex) /\ s \in white_mask'
             ELSE final_data'[s] = final_data[s] /\ s \notin white_mask']_vars

\* The white step has painted some samples and left one whose maximum
\* channel is one grid step under 1.
C5_Witness ==
    /\ pc = "header"
    /\ WhiteOn
    /\ white_mask # {}
    /\ \E s \in DOMAIN samples :
         /\ MaxIndex(s) = CubeSize - 2
         /\ s \notin white_mask
         /\ final_data[s] # RGBOf(req.white_hex)

\* The clip masks as a function of the camera profile, the cube size and
\* the toggle alone.
ExpectedBlackMask(profile_name, n, on) ==
    IF on
      THEN {s \in 0..(n * n * n - 1) :
              2 * Min(s \div (n * n), Min((s \div n) % n, s % n)) * GridOne
                <= 2 * (n - 1) * CAMERA_PROFILES[profile_name].log_floor
                     + GridOne}
      ELSE {}

ExpectedWhiteMask(profile_name, n, on) ==
    IF on
      THEN {s \in 0..(n * n * n - 1) :
              2 * Max(s \div (n * n), Max((s \div n) % n, s % n)) * GridOne
                >= 2 * (n - 1) * CAMERA_PROFILES[profile_name].log_ceiling
                     - GridOne}
      ELSE {}

\* C6: the samples hit by each clip indicator depend on the camera profile,
\* the cube size and the clip toggles only, whatever the target, the bands,
\* the band mode, the monochrome flag and the legal-range flag.
C6_ClipMasksFromGridOnly ==
    pc \in {"header", "legal", "write", "done"} =>
      /\ black_mask = ExpectedBlackMask(req.profile_name, CubeSize, BlackOn)
      /\ white_mask = ExpectedWhiteMask(req.profile_name, CubeSize, WhiteOn)

\* Both masks set under bands in IRE mode, monochrome and legal range.
C6_Witness ==
    /\ pc = "legal"
    /\ req.monochrome /\ req.legal_range /\ req.band_mode = "ire"
    /\ Len(req.bands) = 2
    /\ black_mask # {} /\ white_mask # {}
    /\ \E s \in DOMAIN samples : s \notin black_mask \cup white_mask

\* C7: a sample painted pure red by the white-clip overlay is written as
\* (940/1023, 64/1023, 64/1023) with legal_range, as (1, 0, 0) without.
C7_LegalAfterOverlays ==
    (pc = "done" /\ req.white_hex = Red) =>
      \A s \in DOMAIN file.table :
        WhiteClipped(s) =>
          file.table[s] = IF req.legal_range
                            THEN <<940 * Res, 64 * Res, 64 * Res>>
                            ELSE <<One, 0, 0>>

\* A written legal-range table with a red-painted sample.
C7_Witness ==
    /\ pc = "done"
    /\ req.legal_range
    /\ \E s \in DOMAIN file.table :
         /\ WhiteClipped(s)
         /\ file.table[s] = <<940 * Res, 64 * Res, 64 * Res>>

\* C8: the legal-range step maps 0 to 64/1023 and 1 to 940/1023, keeps the
\* order of the values it maps, and (y - 64/1023) / (876/1023) gives back
\* the value it mapped.
C8_LegalRescaleAffine ==
    [][(pc = "legal" /\ req.legal_range) =>
         \A s \in DOMAIN final_data : \A c \in 1..3 :
           LET x == final_data[s][c]
               y == final_data'[s][c]
           IN  /\ x = 0 => y = 64 * Res
               /\ x = One => y = 940 * Res
               /\ (y - 64 * Res) % 876 = 0
               /\ ((y - 64 * Res) \div 876) * 1023 = x
               /\ \A d \in 1..3 :
                    /\ x < final_data[s][d] => y < final_data'[s][d]
                    /\ (s + 1) \in DOMAIN final_data =>
                         (x < final_data[s + 1][d]
                            => y < final_data'[s + 1][d])]_vars

\* The step has mapped a 0, a 1, a value above 1 and a value below 0.
C8_Witness ==
    /\ pc = "write"
    /\ req.legal_range
    /\ \E s \in DOMAIN final_data : \E c \in 1..3 :
         final_data[s][c] = 64 * Res
    /\ \E s \in DOMAIN final_data : \E c \in 1..3 :
         final_data[s][c] = 940 * Res
    /\ \E s \in DOMAIN final_data : \E c \in 1..3 :
         final_data[s][c] > 940 * Res
    /\ \E s \in DOMAIN final_data : \E c \in 1..3 :
         final_data[s][c] < 64 * Res

\* C9 as claimed: with legal_range every channel of the written table lies
\* in [64/1023, 940/1023].
C9_LegalWindow ==
    (pc = "done" /\ req.legal_range) =>
      \A s \in DOMAIN file.table : \A c \in 1..3 :
        64 * Res <= file.table[s][c] /\ file.table[s][c] <= 940 * Res

\* C10: with monochrome, a sample that no band and no enabled clip paints
\* is written with R = G = B; a banded sample that no clip paints carries
\* its band's colour.
C10_MonochromeGrey ==
    (pc = "done" /\ req.monochrome) =>
      \A s \in DOMAIN file.table :
        /\ (~Banded(s) /\ ClipColours(s) = {}) =>
             /\ file.table[s][1] = file.table[s][2]
             /\ file.table[s][2] = file.table[s][3]
        /\ (Banded(s) /\ ClipColours(s) = {}) =>
             file.table[s] = Written(RGBOf(req.bands[LastBand(s)].color))

\* A monochrome table with an unpainted grey sample strictly inside (0, 1)
\* and a banded sample that is not grey.
C10_Witness ==
    /\ pc = "done"
    /\ req.monochrome
    /\ \E s \in DOMAIN file.table :
         /\ ~Banded(s) /\ ClipColours(s) = {}
         /\ file.table[s][1] = file.table[s][2]
         /\ file.table[s][2] = file.table[s][3]
         /\ 0 < file.table[s][1] /\ file.table[s][1] < One
    /\ \E s \in DOMAIN file.table :
         /\ Banded(s) /\ ClipColours(s) = {}
         /\ file.table[s][1] # file.table[s][2]

\* The call names a camera or a target that the tables do not hold.
UnknownName ==
    \/ req.profile_name \notin DOMAIN registry.cameras
    \/ req.target_name \notin DOMAIN registry.targets

\* C11: a call with a camera or target name that is not registered does one
\* thing only: it raises (KeyError) to the caller, and the file at the
\* output path, present or not, stays as it was.
C11_UnknownProfileNoFile ==
    [][UnknownName =>
         /\ pc = "start" /\ pc' = "error" /\ err' = "KeyError"
         /\ file' = file]_vars

\* An unknown camera name has raised, and the file that stood at the
\* output path is still there.
C11_Witness ==
    /\ pc = "error"
    /\ err = "KeyError"
    /\ req.profile_name = "Nikon N-Log"
    /\ req.target_name = "Rec.709"
    /\ file = OldFile

\* C12: the file changes in one step only, the write that ends the call,
\* when the grid, the overlays and the header are built; a call that raises
\* before leaves the file at the output path as it was.
C12_NoPartialArtifact ==
    [][file' # file =>
         /\ pc = "write" /\ pc' = "done"
         /\ comments # NoComments
         /\ file'.comments = comments
         /\ DOMAIN file'.table = DOMAIN samples
         /\ DOMAIN samples = Rows(req.cube_size)]_vars

\* An invalid clip colour has raised after the base image and the bands
\* were built, and the file that stood at the output path is untouched.
C12_Witness ==
    /\ pc = "error"
    /\ err = "ValueError"
    /\ final_data # << >>
    /\ req.white_clip /\ req.white_hex = BadHex
    /\ Len(req.bands) = 0
    /\ file = OldFile

\* Every band of the request has a width that is not strictly positive.
NoPositiveWidth ==
    /\ Len(req.bands) > 0
    /\ \A i \in 1..Len(req.bands) : req.bands[i].width <= 0

\* C13 as claimed: a band whose width is zero or negative paints no sample,
\* a sample whose metric equals its centre included: after the band step of
\* a request with such bands only, no sample carries a band's colour.
C13_NonPositiveWidthNeverPaints ==
    (pc = "black" /\ NoPositiveWidth) =>
      \A s \in DOMAIN final_data : \A i \in 1..Len(req.bands) :
        final_data[s] # RGBOf(req.bands[i].color)

\* C14: a call with a cube size under 2 never writes: it leaves the file as
\* it was, does not return, and goes on until it raises.
C14_SmallCubeRejected ==
    req.cube_size < 2 =>
      /\ pc # "done"
      /\ file \in {NoFile, OldFile}
      /\ pc # "error" => ENABLED Next

\* A cube of size 0 has gone through the whole pipeline and was refused by
\* the writer.
C14_Witness ==
    /\ pc = "error"
    /\ req.cube_size = 0
    /\ err = "AssertionError"
    /\ comments # NoComments
    /\ file = OldFile

\* The hexadecimal digits.
HexDigits ==
    {"0", "1", "2", "3", "4", "5", "6", "7", "8", "9",
     "a", "b", "c", "d", "e", "f", "A", "B", "C", "D", "E", "F"}

\* Six hexadecimal digits, with or without one leading '#'.
WellFormedHex(h) ==
    LET body == IF Len(h) > 0 /\ h[1] = "#" THEN Tail(h) ELSE h
    IN  /\ Len(body) = 6
        /\ \A i \in 1..6 : body[i] \in HexDigits

\* C15 as claimed: hex_to_rgb returns, with three values in [0, 1], exactly
\* on six hexadecimal digits with or without one leading '#', and raises on
\* every other string.
C15_HexStrict ==
    pc # "hex_to_rgb" =>
      /\ ret.ok <=> WellFormedHex(arg)
      /\ ret.ok => \A c \in 1..3 : 0 <= ret.rgb[c] /\ ret.rgb[c] <= One
      /\ ret.ok <=> pc = "returned"

\* What the tables of a state have that does not resolve, as
\* <<name, what>>: an identifier resolves when it is the one data.py ships,
\* and a shipped curve resolves as an OETF only.
BrokenEntries(reg) ==
    {<<n, "gamut">> : n \in {m \in DOMAIN reg.cameras :
        reg.cameras[m].gamut # CAMERA_PROFILES[m].gamut}}
      \cup
    {<<n, "curve">> : n \in {m \in DOMAIN reg.cameras :
        reg.cameras[m].log # CAMERA_PROFILES[m].log}}
      \cup
    {<<n, "gamut">> : n \in {m \in DOMAIN reg.targets :
        reg.targets[m].gamut # TARGET_PROFILES[m].gamut}}
      \cup
    {<<n, "curve">> : n \in {m \in DOMAIN reg.targets :
        \/ reg.targets[m].gamma # TARGET_PROFILES[m].gamma
        \/ reg.targets[m].encoding # "oetf"}}

\* What a message of validate_profiles is about.
MessageAbout(e) ==
    <<e[1], IF e[2] \in {"gamut", "target gamut"} THEN "gamut" ELSE "curve">>

\* C16: validate_profiles raises if and only if an entry of either table
\* has a gamut or a curve that does not resolve, and its error has one
\* message for each of them, of both tables.
C16_ValidateListsAll ==
    pc # "import" =>
      /\ ret.raised <=> BrokenEntries(registry) # {}
      /\ ret.raised <=> pc = "error"
      /\ ~ret.raised <=> pc = "imported"
      /\ {MessageAbout(e) : e \in ret.errors} = BrokenEntries(registry)
      /\ Cardinality(ret.errors) = Cardinality(BrokenEntries(registry))

\* validate_profiles has raised with three messages or more, about a camera
\* and about a target.
C16_Witness ==
    /\ pc = "error"
    /\ Cardinality(ret.errors) >= 3
    /\ \E e \in ret.errors : e[1] \in DOMAIN CAMERA_PROFILES
    /\ \E e \in ret.errors : e[1] \in DOMAIN TARGET_PROFILES

\* The encoding kind a target declares, "none" when it declares none.
DeclaredKind(target) ==
    IF "encoding" \in DOMAIN target THEN target.encoding ELSE "none"

\* The target-gamut linear row of sample s, before the transfer function.
LinearTargetRow(s) ==
    LET profile == registry.cameras[req.profile_name]
        target == registry.targets[req.target_name]
        converted ==
          ConvertRow(LinearRow(samples[s], profile),
                     RGBToRGBMatrix[profile.gamut, target.gamut])
    IN  IF req.monochrome THEN MonochromeRow(converted, target)
        ELSE converted

\* C17 as claimed: a call gets past the transfer function only with a target
\* that declares "oetf" or "log"; its base image is OETF-encoded exactly
\* when the target declares "oetf", log-encoded exactly when it declares
\* "log".
C17_EncodingDeclared ==
    (pc = "bands" /\ ~UnknownName) =>
      LET target == registry.targets[req.target_name]
      IN  /\ DeclaredKind(target) \in {"oetf", "log"}
          /\ \A s \in DOMAIN final_data :
               LET v == LinearTargetRow(s)
               IN  final_data[s] =
                     IF DeclaredKind(target) = "oetf"
                       THEN <<oetf(v[1]), oetf(v[2]), oetf(v[3])>>
                       ELSE <<log_encoding(v[1], target.gamma),
                              log_encoding(v[2], target.gamma),
                              log_encoding(v[3], target.gamma)>>

\* The metric of sample s in the request's mode, from the base image.
MetricOfMode(s) ==
    IF req.band_mode = "ire"
      THEN IreOfRow(final_data[s], registry.targets[req.target_name])
      ELSE StopsOfRow(LinearRow(samples[s],
                                registry.cameras[req.profile_name]),
                      registry.cameras[req.profile_name])

\* C18: the band step matches the bands on the metric of the request's
\* mode, paints the samples whose metric lies in a band's closed interval
\* [center - width, center + width], and leaves every other sample as it
\* was.
C18_BandClosedInterval ==
    [][(pc = "bands" /\ pc' = "black") =>
         \A s \in DOMAIN final_data :
           /\ band_values[s] = MetricOfMode(s)
           /\ IF Banded(s)
                THEN final_data'[s] = RGBOf(req.bands[LastBand(s)].color)
                ELSE final_data'[s] = final_data[s]]_vars

\* A sample whose metric is the upper end of the band's interval exactly is
\* painted, beside samples that are not.
C18_Witness ==
    /\ pc = "black"
    /\ req.bands = <<BandBelow>>
    /\ \E s \in DOMAIN final_data :
         /\ band_values[s] = BandBelow.stop + BandBelow.width
         /\ final_data[s] = RGBOf(BandBelow.color)
    /\ \E s \in DOMAIN final_data :
         /\ band_values[s] > BandBelow.stop + BandBelow.width
         /\ final_data[s] # RGBOf(BandBelow.color)

\* C19: no step of generate_lut changes the request (the band list: its
\* length, order, centres, colours and widths) or the profile tables.
C19_RequestNotMutated ==
    [][req' = req /\ registry' = registry]_vars

\* A call has returned whose header lists the bands in another order than
\* the caller's list, which still has its order.
C19_Witness ==
    /\ pc = "done"
    /\ req.bands = <<BandB, BandA>>
    /\ file.comments.bands = <<BandA, BandB>>
    /\ registry = Shipped

\* C20 as claimed: the second of two calls with the same request writes the
\* same file, table and header, as the first, whenever it is made.
C20_SameArtifact ==
    (pc = "done" /\ prev.exists) => file = prev

(* --------------------------- C21: data model --------------------------- *)

\* The encoding kinds generate_lut and validate_profiles tell apart.
SupportedKinds == {"oetf", "log"}

\* C21: in the shipped tables every camera has
\* 0 <= log_floor < log_ceiling <= 1 and
\* black_clip_stops < 0 < white_clip_stops, and every target declares an
\* encoding that is "oetf" or "log".
C21_ProfileDataInvariant ==
    registry = Shipped =>
      /\ DOMAIN registry.cameras = DOMAIN CAMERA_PROFILES
      /\ \A n \in DOMAIN registry.cameras :
           LET p == registry.cameras[n]
           IN  /\ 0 <= p.log_floor
               /\ p.log_floor < p.log_ceiling
               /\ p.log_ceiling <= GridOne
               /\ p.black_clip_stops < 0
               /\ 0 < p.white_clip_stops
      /\ \A n \in DOMAIN registry.targets :
           /\ "encoding" \in DOMAIN registry.targets[n]
           /\ registry.targets[n].encoding \in SupportedKinds

\* A LUT was written from the shipped tables for the camera whose floor is 0
\* and whose ceiling is 1, the ends of the allowed range.
C21_Witness ==
    /\ pc = "done"
    /\ registry = Shipped
    /\ req.profile_name = "RED Log3G10"
    /\ registry.cameras[req.profile_name].log_floor = 0
    /\ registry.cameras[req.profile_name].log_ceiling = GridOne

(* ------------------------ C28: white over black ------------------------ *)

\* C28: with both indicators on, a sample that meets both clip conditions
\* carries the white-clip colour once the overlays are applied, and is
\* written in it (in its legal-range equivalent under legal_range).
C28_WhiteOverBlack ==
    /\ pc \in {"header", "legal"} =>
         \A s \in DOMAIN final_data :
           (BlackClipped(s) /\ WhiteClipped(s)) =>
             final_data[s] = RGBOf(req.white_hex)
    /\ pc = "done" =>
         \A s \in DOMAIN file.table :
           (BlackClipped(s) /\ WhiteClipped(s)) =>
             file.table[s] = Written(RGBOf(req.white_hex))

\* The grid corner (0, 0, 1), row N - 1, is in both masks and is written
\* red, the white-clip colour, while the black-clip colour is magenta.
C28_Witness ==
    /\ pc = "done"
    /\ ~req.legal_range
    /\ req.black_hex = Magenta /\ req.white_hex = Red
    /\ samples[CubeSize - 1] = <<0, 0, GridOne>>
    /\ (CubeSize - 1) \in black_mask \cap white_mask
    /\ file.table[CubeSize - 1] = <<One, 0, 0>>

(* ---------------------- C29: indicators turned off ---------------------- *)

\* The header's line for an indicator.
ClipLine(label) ==
    \E i \in 1..Len(comments'.clips) : comments'.clips[i][1] = label

\* C29: an indicator whose toggle is false, or whose colour is the empty
\* string, paints no sample and raises nothing whatever its colour string
\* is (the black block still raises ZeroDivisionError for a cube of size 1,
\* before it looks at the indicator), and the header has a line for an
\* indicator exactly when it is on.
C29_ClipOffIsInert ==
    [][/\ (pc = "black" /\ ~BlackOn) =>
            /\ final_data' = final_data
            /\ black_mask' = {}
            /\ IF CubeSize = 1
                 THEN pc' = "error" /\ err' = "ZeroDivisionError"
                 ELSE pc' = "white" /\ err' = ""
       /\ (pc = "white" /\ ~WhiteOn) =>
            /\ final_data' = final_data
            /\ white_mask' = {}
            /\ pc' = "header" /\ err' = ""
       /\ pc = "header" =>
            /\ ClipLine("Crushed blacks") <=> BlackOn
            /\ ClipLine("Clipped whites") <=> WhiteOn]_vars

\* A LUT written with the black toggle off beside a colour that is no
\* colour, and the white toggle on beside the empty colour: no mask, no
\* clip line, and the corner (0, 0, 0) as the base image has it.
C29_Witness ==
    /\ pc = "done"
    /\ ~req.black_clip /\ req.black_hex = BadHex
    /\ req.white_clip /\ req.white_hex = Empty
    /\ black_mask = {} /\ white_mask = {}
    /\ file.comments.clips = << >>
    /\ req.bands = << >>
    /\ file.table[0] = [c \in 1..3 |-> Clip01(final_data[0][c])]

(* -------------------- C30: bands in stops mode -------------------- *)

\* The samples a band paints, given the metric of every sample.
PaintedBy(metric, band) ==
    {s \in DOMAIN metric :
       band.stop - band.width <= metric[s] /\ metric[s] <= band.stop + band.width}

\* The band whose colour a sample carries after the band loop: the last
\* band of the list that paints it, 0 for none.
BandOf(metric, bands, s) ==
    LET hits == {i \in 1..Len(bands) : s \in PaintedBy(metric, bands[i])}
    IN  IF hits = {} THEN 0 ELSE CHOOSE i \in hits : \A j \in hits : j <= i

\* A colour as a call with the given legal-range flag writes it.
WrittenUnder(legal_range, rgb) == IF legal_range THEN LegalOf(rgb) ELSE rgb

\* C30: of two stops-mode calls that differ only in target profile,
\* monochrome flag or legal-range flag, each band paints the same samples,
\* and a sample no clip indicator paints is written in the colour of the
\* same band by both calls.
C30_StopsBandsIgnoreTarget ==
    (prev.exists /\ req.band_mode = "stops"
       /\ pc \in {"black", "white", "header", "legal", "write", "done"}) =>
      /\ \A i \in 1..Len(req.bands) :
           PaintedBy(band_values, req.bands[i])
             = PaintedBy(prev.band_values, prev.req.bands[i])
      /\ pc = "black" =>
           \A s \in DOMAIN final_data :
             BandOf(prev.band_values, prev.req.bands, s) # 0 =>
               final_data[s] =
                 RGBOf(req.bands[BandOf(prev.band_values, prev.req.bands,
                                        s)].color)
      /\ pc = "done" =>
           \A s \in DOMAIN file.table :
             LET b == BandOf(prev.band_values, prev.req.bands, s)
             IN  (b # 0 /\ s \notin black_mask \cup white_mask) =>
                   /\ file.table[s] = Written(RGBOf(req.bands[b].color))
                   /\ prev.table[s] =
                        WrittenUnder(prev.req.legal_range,
                                     RGBOf(prev.req.bands[b].color))

\* Two written stops-mode LUTs of one camera whose target, monochrome flag
\* and legal-range flag all differ, with a sample that a band paints and a
\* sample that no band paints.
C30_Witness ==
    /\ prev.exists /\ pc = "done"
    /\ req.band_mode = "stops"
    /\ req.target_name = "Log Target" /\ prev.req.target_name = "Rec.709"
    /\ req.monochrome # prev.req.monochrome
    /\ req.legal_range # prev.req.legal_range
    /\ \E s \in DOMAIN file.table :
         /\ BandOf(band_values, req.bands, s) # 0
         /\ s \notin black_mask \cup white_mask
    /\ \E s \in DOMAIN file.table : BandOf(band_values, req.bands, s) = 0

(* ----------------------- C23: middle-grey anchor ----------------------- *)

\* The width of the "Standard" preset of stops mode.
StandardWidth == WIDTH_PRESETS[4].width[1]

\* C23 as claimed: for Sony S-Log3 and N = 17 the node (0.5, 0.5, 0.5) has
\* stops within 0.05 of 0, and the stops-mode band centred on 0 with the
\* standard width holds it.
C23_MiddleGreyAnchor ==
    (pc = "stops" /\ arg.profile_name = "Sony S-Log3" /\ arg.cube_size = 17
       /\ ret.sample = <<GridOne \div 2, GridOne \div 2, GridOne \div 2>>) =>
      /\ 0 - 50 <= ret.stops /\ ret.stops <= 50
      /\ BandMask(<<ret.stops>>, [stop |-> 0, width |-> StandardWidth]) = {1}

\* The prompts of collect_false_color_bands past the entry of the values.
BandPrompts ==
    {"band_color", "use_color", "pick_color", "hex_code", "family", "shade",
     "band_width", "custom_width"}

\* The centres of a list of bands are in ascending order: no band's centre
\* is less than the centre of a band before it.
Ascending(bands) ==
    \A k, l \in 1..Len(bands) :
      k < l => ~FloatLess(bands[l].stop, bands[k].stop)

\* C26 (navigation): at the band_color and band_width steps of
\* collect_false_color_bands len(bands) = bi and 0 <= bi <=
\* len(sorted_values), the bands so far being those of the first bi values;
\* bands.pop() never runs on an empty list; BACK at "Use this color?" with
\* bi > 0 removes the last band alone and shows band bi - 1, with bi = 0 it
\* asks for the values again; from the width menu control comes back to the
\* colour either with the state as it was (BACK) or with one band more, for
\* value bi.
C26_Counts ==
    /\ pc # "error"
    /\ pc \in BandPrompts =>
         /\ Len(cli.bands) = cli.bi
         /\ 0 <= cli.bi /\ cli.bi <= Len(cli.sorted_values)
         /\ \A k \in 1..cli.bi : cli.bands[k].stop = cli.sorted_values[k]

BackAtColor ==
    pc = "use_color" /\ pc' \notin {"use_color", "band_width", "pick_color"}
      => IF cli.bi > 0
           THEN /\ pc' = "band_color"
                /\ cli'.bi = cli.bi - 1
                /\ cli'.bands = SubSeq(cli.bands, 1, Len(cli.bands) - 1)
                /\ cli'.sorted_values = cli.sorted_values
           ELSE pc' = "get_values" /\ cli' = cli

FromWidth ==
    pc \in {"band_width", "custom_width"} /\ pc' = "band_color"
      => \/ cli' = cli
         \/ /\ cli'.bi = cli.bi + 1
            /\ Len(cli'.bands) = Len(cli.bands) + 1
            /\ SubSeq(cli'.bands, 1, Len(cli.bands)) = cli.bands
            /\ cli'.bands[cli'.bi].stop = cli.sorted_values[cli'.bi]
            /\ cli'.bands[cli'.bi].color = cli.current_color

FromPicker ==
    pc \in {"pick_color", "hex_code", "shade"}
      /\ pc' \in {"band_color", "band_width"}
      => cli'.bands = cli.bands /\ cli'.bi = cli.bi

C26_Back == [][BackAtColor /\ FromWidth /\ FromPicker]_vars

\* C26: collect_false_color_bands returns only BACK, the empty list, or a
\* list of exactly one band per entered value, the centres in ascending
\* order.
C26_ReturnsAscending ==
    pc = "returned" /\ cli.command = "collect_false_color_bands" =>
      \/ ret = BACK
      \/ ret = Value(<< >>)
      \/ /\ ret.kind = "value"
         /\ Len(ret.value) = Len(cli.sorted_values)
         /\ \A k \in 1..Len(ret.value) :
              ret.value[k].stop = cli.sorted_values[k]
         /\ Ascending(ret.value)

\* The same without the order of the centres.
C26_ReturnsOnePerValue ==
    pc = "returned" /\ cli.command = "collect_false_color_bands" =>
      \/ ret = BACK
      \/ ret = Value(<< >>)
      \/ /\ ret.kind = "value"
         /\ Len(ret.value) = Len(cli.sorted_values)
         /\ \A k \in 1..Len(ret.value) :
              ret.value[k].stop = cli.sorted_values[k]

\* The answer "1, nan, 0" has given three bands, which are returned.
C26_NanReturned ==
    /\ pc = "returned"
    /\ ret.kind = "value"
    /\ Len(ret.value) = 3
    /\ ret.value[1].stop = Float(1000)
    /\ ret.value[2].stop = NaN
    /\ ret.value[3].stop = Float(0)

\* The keys of the state dict each step of build sets, in the order of the
\* steps, and the twelve fields of a request.
Owned ==
    <<{"profile_name"}, {"target_name"}, {"cube_size"}, {"band_mode"},
      {"bands"}, {"black_clip", "black_hex"}, {"white_clip", "white_hex"},
      {"monochrome"}, {"legal_range"}, {"output_filename"}>>
Fields == UNION {Owned[k] : k \in 1..Len(Owned)}

\* The prompts that belong to a step: its first one and those it leads to.
PromptsOf(step) ==
    CASE step = "ask_add" -> {"ask_add", "get_values"} \cup BandPrompts
      [] step = "step_black_clip" ->
           {"step_black_clip", "black_use", "pick_color", "hex_code",
            "family", "shade"}
      [] step = "step_white_clip" ->
           {"step_white_clip", "white_use", "pick_color", "hex_code",
            "family", "shade"}
      [] OTHER -> {step}

\* What a step may leave in the state for an answer.
AnswersOf(key) ==
    CASE key = "profile_name" -> {CameraOptions[k] : k \in 1..5}
      [] key = "target_name" -> {TargetOptions[k] : k \in 1..2}
      [] key = "cube_size" -> {17, 33, 65}
      [] key = "band_mode" -> {"stops", "ire"}
      [] OTHER -> BOOLEAN

\* 0 <= i <= 10, the prompt shown is one of step i, every step before i
\* has its keys in the state, and generate_lut is called only with i = 10,
\* the state holding all twelve fields, which are the arguments.
IndexAndState ==
    cli.command = "build" =>
      /\ cli.i \in 0..Len(steps)
      /\ cli.i < Len(steps) => pc \in PromptsOf(steps[cli.i + 1])
      /\ cli.i = Len(steps) <=> pc \in {"generate", "called"}
      /\ \A k \in 1..cli.i : Owned[k] \subseteq DOMAIN cli.state
      /\ \A key \in DOMAIN cli.state \cap
                      {"profile_name", "target_name", "cube_size",
                       "band_mode", "black_clip", "white_clip",
                       "monochrome", "legal_range"} :
           cli.state[key] \in AnswersOf(key)
      /\ pc = "called" =>
           /\ DOMAIN cli.state = Fields
           /\ DOMAIN req = Fields
           /\ \A key \in Fields : req[key] = cli.state[key]

\* BACK at the first prompt of step i, by a person whose requests to go
\* back are counted: step i - 1 is shown and the state is as it was.
StepBack ==
    /\ user.tires /\ user'.backs = user.backs - 1
    /\ \E k \in 1..Len(steps) : pc = steps[k]

\* One step of the loop of build.
StepLoop ==
    cli.command = "build" =>
         /\ cli'.i \in {cli.i, cli.i + 1, Max(0, cli.i - 1)}
         /\ cli'.i <= cli.i => cli'.state = cli.state
         /\ StepBack =>
              /\ cli'.i = Max(0, cli.i - 1)
              /\ pc' = steps[cli'.i + 1]
         /\ cli'.i = cli.i + 1 =>
              /\ Owned[cli'.i] \subseteq DOMAIN cli'.state
              /\ \A key \in DOMAIN cli.state \ Owned[cli'.i] :
                   /\ key \in DOMAIN cli'.state
                   /\ cli'.state[key] = cli.state[key]
         /\ pc' = "called" => pc = "generate" /\ cli.i = Len(steps)

\* C24: in the loop of build 0 <= i <= 10; a step that returns BACK moves
\* to step i - 1 (to step 0 from step 0) and leaves the state dict as it
\* was; a step that returns a value moves to step i + 1 and changes no key
\* but its own; the state changes at no other time; generate_lut is called
\* only past the loop with i = 10, the state holding all twelve fields,
\* each the answer of the most recent completion of its step.
C24_BackNavigation == []IndexAndState /\ [][StepLoop]_vars

\* generate_lut is called by a person who went back twice on the way, with
\* a band and the black indicator on.
C24_Witness ==
    /\ pc = "called"
    /\ user.tires /\ user.backs = 0
    /\ req.bands # << >>
    /\ req.black_clip
    /\ ~req.white_clip

\* generate_lut has been called: build does not call it again.
CalledOnce ==
    /\ pc' = "called" => pc = "generate"
    /\ pc = "called" => pc' = "called" /\ req' = req

\* C25: when the person goes back finitely often and ends up answering
\* every prompt validly, the loop of build is left past its last step and
\* generate_lut is called, once; and the loop is never left with a step
\* unanswered.
C25_Termination ==
    /\ <>(pc = "called")
    /\ [][CalledOnce]_vars
    /\ [](pc \in {"generate", "called"} =>
            /\ cli.i = Len(steps)
            /\ \A k \in 1..Len(steps) : Owned[k] \subseteq DOMAIN cli.state)

\* The call is made after the person has gone back as often as they would
\* and has mistyped as often as they would.
C25_Witness ==
    /\ pc = "called"
    /\ user.tires /\ user.backs = 0 /\ user.slips = 0
    /\ DOMAIN req = Fields

\* A float is a number greater than 0.
Positive(w) == ~w.nan /\ w.v > 0

AllPositive(bands) == \A k \in 1..Len(bands) : Positive(bands[k].width)

\* A band is appended from pick_width's menu or its custom entry alone,
\* with the width that was chosen there.
AppendsFromWidth ==
    cli.command = "build" /\ Len(cli'.bands) > Len(cli.bands) =>
      /\ pc \in {"band_width", "custom_width"}
      /\ Len(cli'.bands) = Len(cli.bands) + 1
      /\ Positive(cli'.bands[Len(cli'.bands)].width)

\* C27: every preset width but the custom entry's is positive; a band is
\* appended only with a width chosen at pick_width, which is greater than
\* 0; so the bands build collects, keeps in its state and passes to
\* generate_lut all have width > 0.
C27_PositiveWidths ==
    /\ [](/\ \A k \in 1..Len(WIDTH_PRESETS) :
               WIDTH_PRESETS[k].width # << >> =>
                 WIDTH_PRESETS[k].width[1] > 0
          /\ \A k \in 1..Len(IRE_WIDTH_PRESETS) :
               IRE_WIDTH_PRESETS[k].width # << >> =>
                 IRE_WIDTH_PRESETS[k].width[1] > 0
          /\ AllPositive(cli.bands)
          /\ "bands" \in DOMAIN cli.state => AllPositive(cli.state.bands)
          /\ pc = "called" => AllPositive(req.bands))
    /\ [][AppendsFromWidth]_vars

\* generate_lut is called with a band of the custom width 0.15, entered
\* where "0" and "nan" could have been.
C27_Witness ==
    /\ pc = "called"
    /\ ~user.tires
    /\ req.bands # << >>
    /\ req.bands[1].width = Float(150)

\* C22: the config that config_from_session makes of a session, saved and
\* loaded again by build --config under the same --output-dir, gives
\* generate_lut the twelve arguments the session gave it.
C22_ConfigReplay ==
    pc = "called" /\ cli.command = "build --config"
      /\ cli.output_dir = prev.output_dir
      => /\ DOMAIN req = Fields
         /\ \A key \in Fields : req[key] = prev.req[key]
         /\ req = prev.req

\* A session with two bands, a black indicator of a colour typed, and an
\* output name typed with a directory and an upper-case suffix, under
\* --output-dir, has been replayed.
C22_Witness ==
    /\ pc = "called"
    /\ cli.command = "build --config"
    /\ cli.output_dir = prev.output_dir
    /\ cli.output_dir # << >>
    /\ Len(req.bands) = 2
    /\ req.black_clip /\ req.black_hex = HexTyped("#FF0000")
    /\ req.output_filename = Path(<<"luts">>, <<"out">>, ".CUBE")
    /\ prev.req.output_filename = req.output_filename

====
